---- MODULE Spec2Model ----
(***************************************************************************)
(* A model of time-confighub's TSN pipeline: the semantic extraction of    *)
(* GE_dictionary.py and the tc command synthesis of tc_command.py.         *)
(*                                                                         *)
(* Conventions.                                                            *)
(*  - A Python value is a tagged record (PyNone, PyStr, PyInt, PyDict,     *)
(*    PyList).  A dict keeps its items in insertion order, as a sequence   *)
(*    of <<key, value>> pairs.                                             *)
(*  - The text of a str is a sequence of chunks whose concatenation is     *)
(*    the string.  Text the code inspects character by character (int(),   *)
(*    strip()) is chunked by character; text the code only copies or       *)
(*    compares is one chunk.                                               *)
(*  - A tc command is the sequence of its shell words: the commands are    *)
(*    run through a shell, which splits them at white space.               *)
(***************************************************************************)
EXTENDS Integers, Sequences, FiniteSets, TLC

VARIABLES
    pc,            \* the position of the driver of the specification at hand
    source,        \* the configuration the documents were parsed from
    documents,     \* GE_Dictionary.documents
    entries,       \* result of get_gate_control_entries
    formatted,     \* result of get_gate_control_entries_formatted
    qdisc_args,    \* arguments of the last create_tc_qdisc_gcl_command call
    qdisc_cmds,    \* result of the last create_tc_qdisc_gcl_command call
    proto_args,    \* arguments of _get_ip_protocol_and_ports_filter_configuration
    proto_cmd,     \* its result
    all_talker_info,       \* result of get_all_talker_stream_info
    vlan_time_aware,       \* result of get_vlan_tagged_time_aware_talker_info
    vlan_non_time_aware,   \* result of get_vlan_tagged_non_time_aware_talker_info
    filter_call,   \* the last filter generator call: generator and argument
    filter_cmds,   \* result of the last filter generator call
    clsact_checks, \* the interfaces _clsact_exists was called on in that call
    clsact_shown,  \* the interfaces `tc qdisc show dev` lists a clsact for
    kernel,        \* what the kernel holds for the interface being reset
    reset_call,    \* the last reset operation called, and the state it found
    reset_result,  \* what that call returned or raised
    tc_log,        \* the run_tc_command calls of that call, in order
    files,         \* the configuration files on disk: path -> content
    current_parser,        \* UniversalParser.current_parser
    universal_documents,   \* UniversalParser.documents
    parser_documents,      \* the documents attribute of each format parser
    parse_call,    \* the last UniversalParser call, and the state it found
    last_parsed,   \* per path, what parse returned for the content it holds
    helper,        \* what get_dictionary_helper and has_chronos_domain gave
    parse_result,  \* what a format parser returned or raised for the source
    chronos_found, \* what has_chronos_domain returned for the documents
    extraction,    \* what the extraction operations returned or raised
    apply_call,    \* the apply_config call at hand: file, dry_run, /sys/class/net
    apply_data,    \* interfaces, gate entries and talkers apply_config extracted
    apply_validated,       \* the interfaces _validate_interface was called on
    apply_kernel,  \* per interface, what the kernel holds
    apply_log,     \* the tc commands the call ran, in order
    apply_result,  \* what the call returned or raised
    clock,         \* time.time(), in ticks
    _last_event_time,      \* WatchHandler._last_event_time
    executor_queue,        \* the work queue of the module's executor
    workers,       \* what each worker thread of the executor is running
    watch_files,   \* per watched path, the edition of the file on disk
    event_log,     \* the file system events delivered to the handler
    applied,       \* per path, the edition the last apply_config read
    tc_trace,      \* the tc commands of the watcher's tasks, as they ran
    show_call,     \* the config-show invocation: format and configuration
    show_out,      \* what it printed, on stdout and stderr
    show_exit      \* its exit status

docVars == <<source, documents>>
gclVars == <<entries, formatted, qdisc_args, qdisc_cmds>>
protoVars == <<proto_args, proto_cmd>>
talkerVars == <<all_talker_info, vlan_time_aware, vlan_non_time_aware>>
filterVars == <<filter_call, filter_cmds, clsact_checks, clsact_shown>>
resetVars == <<kernel, reset_call, reset_result, tc_log>>
parserVars == <<files, current_parser, universal_documents, parser_documents,
                parse_call, last_parsed, helper>>
readVars == <<parse_result, chronos_found, extraction>>
applyVars == <<apply_call, apply_data, apply_validated, apply_kernel,
               apply_log, apply_result>>
watchVars == <<clock, _last_event_time, executor_queue, workers, watch_files,
               event_log, applied, tc_trace>>
showVars == <<show_call, show_out, show_exit>>

vars == <<pc, docVars, gclVars, protoVars, talkerVars, filterVars, resetVars,
          parserVars, readVars, applyVars, watchVars, showVars>>

---------------------------------------------------------------------------
(* Bounds of the model.                                                    *)

MaxIfaces == 2      \* interfaces per document, and per interface list
MaxEntries == 2     \* gate-control entries per interface
MaxDocs == 2        \* documents per document set
MaxNumTc == 3       \* num_tc of a create_tc_qdisc_gcl_command call
MaxGate == 255      \* largest gate-states-value (an 8-bit gate mask)
MaxProtocol == 260  \* protocol numbers 0..MaxProtocol, besides the large ones
MaxCfgs == 2        \* config-list entries per talker
MaxTalkers == 2     \* talkers per stream
MaxBatch == 3       \* talkers per filter generator call
MaxResets == 2      \* reset operations called one after the other

---------------------------------------------------------------------------
(* Python values.                                                          *)

PyNone == [t |-> "none"]
PyStr(chunks) == [t |-> "str", s |-> chunks]
PyInt(n) == [t |-> "int", n |-> n]
PyDict(kv) == [t |-> "dict", kv |-> kv]
PyList(items) == [t |-> "list", items |-> items]

RECURSIVE Flat(_)
\* The string a chunked text stands for.
Flat(s) ==
    IF s = <<>> THEN "" ELSE Head(s) \o Flat(Tail(s))

\* Python truthiness: `if x:`.
Truthy(x) ==
    CASE x.t = "none" -> FALSE
      [] x.t = "str"  -> Flat(x.s) # ""
      [] x.t = "int"  -> x.n # 0
      [] x.t = "dict" -> x.kv # <<>>
      [] x.t = "list" -> x.items # <<>>

\* d.get(key, default) on a dict.
DictGet(d, key, default) ==
    LET idx == {i \in 1..Len(d.kv) : d.kv[i][1] = key}
    IN  IF idx = {} THEN default ELSE d.kv[CHOOSE i \in idx : TRUE][2]

\* `if not isinstance(x, list): x = [x]`.
AsList(x) ==
    IF x.t = "list" THEN x.items ELSE <<x>>

WhiteSpace == {" ", "\t", "\n"}

RECURSIVE Strip(_)
\* str.strip() on a text chunked by character.
Strip(s) ==
    IF s = <<>> THEN s
    ELSE IF Head(s) \in WhiteSpace THEN Strip(Tail(s))
    ELSE IF s[Len(s)] \in WhiteSpace THEN Strip(SubSeq(s, 1, Len(s) - 1))
    ELSE s

DecDigits == <<"0", "1", "2", "3", "4", "5", "6", "7", "8", "9">>

DigitOf(c) ==
    CHOOSE d \in 0..9 : DecDigits[d + 1] = c

RECURSIVE ParseDec(_)
ParseDec(s) ==
    IF s = <<>> THEN 0
    ELSE ParseDec(SubSeq(s, 1, Len(s) - 1)) * 10 + DigitOf(s[Len(s)])

RECURSIVE DecChunks(_)
\* The decimal text of a number, chunked by character.
DecChunks(n) ==
    IF n < 10 THEN <<DecDigits[n + 1]>>
    ELSE DecChunks(n \div 10) \o <<DecDigits[(n % 10) + 1]>>

\* int(x) for an int or a decimal str (surrounding white space is ignored).
ToInt(x) ==
    IF x.t = "int" THEN x.n ELSE ParseDec(Strip(x.s))

\* f"{x}": how a value renders inside an f-string.
Render(x) ==
    CASE x.t = "none" -> "None"
      [] x.t = "str"  -> Flat(x.s)
      [] x.t = "int"  -> ToString(x.n)

UpperHex == <<"0", "1", "2", "3", "4", "5", "6", "7",
              "8", "9", "A", "B", "C", "D", "E", "F">>

RECURSIVE ToUpperHex(_)
ToUpperHex(n) ==
    IF n < 16 THEN UpperHex[n + 1]
    ELSE ToUpperHex(n \div 16) \o UpperHex[(n % 16) + 1]

FormatHexBroken(n) ==
    ToUpperHex(n)

\* f"{n:02X}": upper-case hexadecimal, zero-padded to two digits at least.
FormatHex02X(n) ==
    IF n < 16 THEN "0" \o ToUpperHex(n) ELSE ToUpperHex(n)

---------------------------------------------------------------------------
(* GE_Dictionary: gate-control entries.                                    *)

RECURSIVE _find_key(_, _), FindKeyInItems(_, _), FindKeyInList(_, _)
\* Recursive find of the first occurrence of a key, depth first.
_find_key(node, key) ==
    IF node.t = "dict" THEN FindKeyInItems(node.kv, key)
    ELSE IF node.t = "list" THEN FindKeyInList(node.items, key)
    ELSE PyNone

FindKeyInItems(kv, key) ==
    IF kv = <<>> THEN PyNone
    ELSE IF Head(kv)[1] = key THEN Head(kv)[2]
    ELSE LET found == _find_key(Head(kv)[2], key)
         IN  IF found # PyNone THEN found ELSE FindKeyInItems(Tail(kv), key)

FindKeyInList(items, key) ==
    IF items = <<>> THEN PyNone
    ELSE LET found == _find_key(Head(items), key)
         IN  IF found # PyNone THEN found ELSE FindKeyInList(Tail(items), key)

RECURSIVE ConcatAll(_)
ConcatAll(seqs) ==
    IF seqs = <<>> THEN <<>> ELSE Head(seqs) \o ConcatAll(Tail(seqs))

\* The body of `for iface in interface_list` of get_gate_control_entries.
InterfaceGateEntries(iface) ==
    LET gate_table == _find_key(iface, "gate-parameter-table")
    IN  IF ~Truthy(gate_table) THEN <<>>
        ELSE LET admin_list == _find_key(gate_table, "admin-control-list")
             IN  IF ~Truthy(admin_list) THEN <<>>
                 ELSE LET gate_entries ==
                              DictGet(admin_list, "gate-control-entry", PyNone)
                      IN  IF ~Truthy(gate_entries) THEN <<>>
                          ELSE AsList(gate_entries)

DocumentGateEntriesFirstInterface(doc) ==
    LET interfaces_section == _find_key(doc, "interfaces")
    IN  IF ~Truthy(interfaces_section) THEN <<>>
        ELSE LET interface_list ==
                     DictGet(interfaces_section, "interface", PyNone)
             IN  IF ~Truthy(interface_list) THEN <<>>
                 ELSE InterfaceGateEntries(AsList(interface_list)[1])

\* The body of `for doc in self.documents` of get_gate_control_entries.
DocumentGateEntries(doc) ==
    LET interfaces_section == _find_key(doc, "interfaces")
    IN  IF ~Truthy(interfaces_section) THEN <<>>
        ELSE LET interface_list ==
                     DictGet(interfaces_section, "interface", PyNone)
             IN  IF ~Truthy(interface_list) THEN <<>>
                 ELSE LET ifs == AsList(interface_list)
                      IN  ConcatAll([i \in 1..Len(ifs) |->
                                        InterfaceGateEntries(ifs[i])])

get_gate_control_entries(docs) ==
    ConcatAll([d \in 1..Len(docs) |-> DocumentGateEntries(docs[d])])

\* One formatted entry, as the words of "sched-entry S <HH> <interval>".
FormatEntry(entry) ==
    LET op == DictGet(entry, "operation-name", PyNone)
        sv == DictGet(entry, "gate-states-value", PyNone)
        iv == DictGet(entry, "time-interval-value", PyNone)
        state_val == IF sv = PyNone THEN PyStr(<<"0">>) ELSE sv
        interval == IF iv = PyNone THEN PyStr(<<"0">>) ELSE iv
    IN  IF op.t = "str" /\ Flat(op.s) = "sched:set-gate-states"
        THEN <<"sched-entry", "S", FormatHex02X(ToInt(state_val)),
               Render(interval)>>
        ELSE <<"sched-entry", "?", Render(state_val), Render(interval)>>

get_gate_control_entries_formatted(docs) ==
    LET es == get_gate_control_entries(docs)
    IN  [i \in 1..Len(es) |-> FormatEntry(es[i])]


\* The names of all interfaces under the first "interfaces" section of
\* each document.
DocumentInterfaceNames(doc) ==
    LET interfaces_section == _find_key(doc, "interfaces")
    IN  IF ~Truthy(interfaces_section) THEN <<>>
        ELSE LET interface_list ==
                     DictGet(interfaces_section, "interface", PyNone)
             IN  IF ~Truthy(interface_list) THEN <<>>
                 ELSE LET ifs == AsList(interface_list)
                          NameOf(iface) ==
                              LET name_entry == DictGet(iface, "name", PyNone)
                              IN  IF ~Truthy(name_entry) THEN <<>>
                                  ELSE IF name_entry.t = "dict"
                                          /\ DictGet(name_entry, "#text", PyNone)
                                                 # PyNone
                                  THEN <<Render(DictGet(name_entry, "#text",
                                                        PyNone))>>
                                  ELSE <<Render(name_entry)>>
                      IN  ConcatAll([i \in 1..Len(ifs) |-> NameOf(ifs[i])])

get_interface_names(docs) ==
    ConcatAll([d \in 1..Len(docs) |-> DocumentInterfaceNames(docs[d])])

---------------------------------------------------------------------------
(* GE_Dictionary: talkers.  A talker map (stream id -> list of talkers) is *)
(* a sequence of <<stream id, talkers>> pairs in insertion order.          *)

HasKey(d, key) ==
    \E i \in 1..Len(d.kv) : d.kv[i][1] = key

\* s.replace("-", ":") on a text whose separators are chunks of their own.
ReplaceHyphens(s) ==
    [i \in 1..Len(s) |-> IF s[i] = "-" THEN ":" ELSE s[i]]

\* mac.replace("-", ":") if mac else None
NormalizeMac(mac) ==
    IF Truthy(mac) THEN PyStr(ReplaceHyphens(mac.s)) ELSE PyNone

\* str(x), chunked by character where the code inspects it.
StrChunks(x) ==
    IF x.t = "int" THEN DecChunks(x.n) ELSE x.s

ZeroEquivalents == {"0", "0.0", ""}

\* `val and str(val).strip() not in ("0", "0.0", "")`
IsNonZeroOffset(val) ==
    Truthy(val) /\ Flat(Strip(StrChunks(val))) \notin ZeroEquivalents

\* The talker attributes before the config-list is read.
TalkerDefaults ==
    [dst_mac |-> PyNone, vlan_tag |-> FALSE, vlan_id |-> PyNone,
     pcp |-> PyNone, src_ip |-> PyNone, dst_ip |-> PyNone, dscp |-> PyNone,
     ip_protocol |-> PyNone, src_port |-> PyNone, dst_port |-> PyNone,
     time_aware |-> FALSE, time_aware_offset |-> PyNone,
     earliest_tx_offset |-> PyNone, latest_tx_offset |-> PyNone]

ApplyMacAddresses(st, cfg) ==
    IF HasKey(cfg, "ieee802-mac-addresses")
    THEN LET macs == DictGet(cfg, "ieee802-mac-addresses", PyNone)
         IN  [st EXCEPT !.dst_mac = NormalizeMac(
                            DictGet(macs, "destination-mac-address", PyNone))]
    ELSE st

ApplyVlanTag(st, cfg) ==
    IF HasKey(cfg, "ieee802-vlan-tag")
    THEN LET vlan == DictGet(cfg, "ieee802-vlan-tag", PyNone)
         IN  [st EXCEPT !.vlan_tag = TRUE,
                        !.vlan_id = DictGet(vlan, "vlan-id", PyNone),
                        !.pcp = DictGet(vlan, "priority-code-point", PyNone)]
    ELSE st

ApplyIpv4Tuple(st, cfg) ==
    IF HasKey(cfg, "ipv4-tuple")
    THEN LET ipv4 == DictGet(cfg, "ipv4-tuple", PyNone)
         IN  [st EXCEPT !.src_ip = DictGet(ipv4, "source-ip-address", PyNone),
                        !.dst_ip = DictGet(ipv4, "destination-ip-address", PyNone),
                        !.dscp = DictGet(ipv4, "dscp", PyNone),
                        !.ip_protocol = DictGet(ipv4, "protocol", PyNone),
                        !.src_port = DictGet(ipv4, "source-port", PyNone),
                        !.dst_port = DictGet(ipv4, "destination-port", PyNone)]
    ELSE st

ApplyTimeAwareOffset(st, cfg) ==
    IF HasKey(cfg, "time-aware-offset")
    THEN LET offset_val == DictGet(cfg, "time-aware-offset", PyNone)
         IN  IF IsNonZeroOffset(offset_val)
             THEN [st EXCEPT !.time_aware = TRUE,
                             !.time_aware_offset = offset_val]
             ELSE st
    ELSE st

\* The time-aware block of one config-list entry: the offsets are
\* overwritten, the flag is only ever set.
ApplyTimeAware(st, cfg) ==
    IF HasKey(cfg, "time-aware")
    THEN LET time_block == DictGet(cfg, "time-aware", PyNone)
             earliest == DictGet(time_block, "earliest-transmit-offset", PyNone)
             latest == DictGet(time_block, "latest-transmit-offset", PyNone)
         IN  [st EXCEPT !.earliest_tx_offset = earliest,
                        !.latest_tx_offset = latest,
                        !.time_aware =
                            \/ st.time_aware
                            \/ IsNonZeroOffset(earliest)
                            \/ IsNonZeroOffset(latest)]
    ELSE st

\* The body of `for cfg in cfg_lists`.
ApplyConfig(st, cfg) ==
    ApplyTimeAware(
        ApplyTimeAwareOffset(
            ApplyIpv4Tuple(ApplyVlanTag(ApplyMacAddresses(st, cfg), cfg), cfg),
            cfg),
        cfg)

RECURSIVE ApplyConfigList(_, _)
ApplyConfigList(st, cfg_lists) ==
    IF cfg_lists = <<>> THEN st
    ELSE ApplyConfigList(ApplyConfig(st, Head(cfg_lists)), Tail(cfg_lists))

\* The talker_entry of one talker.
TalkerEntry(talker) ==
    LET end_iface == DictGet(talker, "end-station-interfaces", PyDict(<<>>))
        src_mac == NormalizeMac(DictGet(end_iface, "mac-address", PyNone))
        iface_cfg == DictGet(talker, "interface-configuration", PyDict(<<>>))
        iface_list == DictGet(iface_cfg, "interface-list", PyDict(<<>>))
        interface_mac == NormalizeMac(DictGet(iface_list, "mac-address", PyNone))
        interface_name == DictGet(iface_list, "interface-name", PyNone)
        cfg_lists == AsList(DictGet(iface_list, "config-list", PyList(<<>>)))
        st == ApplyConfigList(TalkerDefaults, cfg_lists)
    IN  [interface_name |-> interface_name,
         interface_mac |-> interface_mac,
         source_mac |-> src_mac,
         destination_mac |-> st.dst_mac,
         source_ip |-> st.src_ip,
         destination_ip |-> st.dst_ip,
         dscp |-> st.dscp,
         ip_protocol |-> st.ip_protocol,
         source_port |-> st.src_port,
         destination_port |-> st.dst_port,
         vlan_tag |-> st.vlan_tag,
         vlan_id |-> st.vlan_id,
         vlan_priority |-> st.pcp,
         time_aware |-> st.time_aware,
         time_aware_offset |-> st.time_aware_offset,
         earliest_transmit_offset |-> st.earliest_tx_offset,
         latest_transmit_offset |-> st.latest_tx_offset]

\* result.setdefault(stream_id, []).append(talker_entry)
SetDefaultAppend(result, stream_id, talker_entry) ==
    IF \E i \in 1..Len(result) : result[i][1] = stream_id
    THEN [i \in 1..Len(result) |->
             IF result[i][1] = stream_id
             THEN <<stream_id, Append(result[i][2], talker_entry)>>
             ELSE result[i]]
    ELSE Append(result, <<stream_id, <<talker_entry>> >>)

RECURSIVE AppendTalkers(_, _, _)
AppendTalkers(result, stream_id, talkers) ==
    IF talkers = <<>> THEN result
    ELSE AppendTalkers(
             SetDefaultAppend(result, stream_id, TalkerEntry(Head(talkers))),
             stream_id, Tail(talkers))

\* The streams of one document, in the order the loops visit them:
\* domain, then cuc, then stream.
DocumentStreams(doc) ==
    LET domains == AsList(DictGet(DictGet(doc, "cnc-config", PyDict(<<>>)),
                                  "domain", PyList(<<>>)))
        CucStreams(cuc) == AsList(DictGet(cuc, "stream", PyList(<<>>)))
        DomainStreams(domain) ==
            LET cucs == AsList(DictGet(domain, "cuc", PyList(<<>>)))
            IN  ConcatAll([c \in 1..Len(cucs) |-> CucStreams(cucs[c])])
    IN  ConcatAll([d \in 1..Len(domains) |-> DomainStreams(domains[d])])

RECURSIVE AddStreams(_, _)
\* The body of `for stream in streams`.
AddStreams(result, streams) ==
    IF streams = <<>> THEN result
    ELSE LET stream == Head(streams)
             stream_id == DictGet(stream, "stream-id", PyNone)
             talkers == AsList(DictGet(stream, "talker", PyList(<<>>)))
         IN  IF ~Truthy(stream_id) THEN AddStreams(result, Tail(streams))
             ELSE AddStreams(AppendTalkers(result, Render(stream_id), talkers),
                             Tail(streams))

get_all_talker_stream_info(docs) ==
    AddStreams(<<>>, ConcatAll([d \in 1..Len(docs) |-> DocumentStreams(docs[d])]))

\* `if filtered: result[stream_id] = filtered`: a stream none of whose
\* talkers is kept is left out of the result.
DropEmptyStreams(filtered) ==
    LET NonEmpty(entry) == entry[2] # <<>>
    IN  SelectSeq(filtered, NonEmpty)

IsVlanTimeAware(t) ==
    t.vlan_tag /\ t.time_aware

IsVlanNotTimeAwareMissingNot(t) ==
    t.vlan_tag

IsVlanNotTimeAware(t) ==
    t.vlan_tag /\ ~t.time_aware

get_vlan_tagged_non_time_aware_talker_info(info) ==
    DropEmptyStreams([i \in 1..Len(info) |->
        <<info[i][1], SelectSeq(info[i][2], IsVlanNotTimeAware)>>])

get_vlan_tagged_time_aware_talker_info(info) ==
    DropEmptyStreams([i \in 1..Len(info) |->
        <<info[i][1], SelectSeq(info[i][2], IsVlanTimeAware)>>])

---------------------------------------------------------------------------
(* tc_command: the taprio and etf qdisc commands.                          *)

TxtimeDelayDefault == 200000
DeltaDefault == 175000

DefaultMapStr ==
    <<"0", "1", "2", "3">> \o [i \in 1..12 |-> "0"]
DefaultQueuesStr ==
    <<"1@0", "1@1", "1@2", "1@3">>

EtfClassesOffByOne(num_tc) ==
    1..(num_tc - 1)

\* range(1, num_tc + 1): the traffic classes that get an etf qdisc.
EtfClasses(num_tc) ==
    1..num_tc

\* The taprio command of one interface.
TaprioCommand(iface, gcl, num_tc, base_time, map_str, queues_str, handle_id, flags, txtime_delay) ==
    <<"tc", "qdisc", "replace", "dev", iface, "parent", "root", "handle",
      handle_id, "taprio">>
    \o <<"num_tc", ToString(num_tc), "map">> \o map_str
    \o <<"queues">> \o queues_str
    \o <<"base-time", ToString(base_time)>>
    \o ConcatAll(gcl)
    \o <<"flags", flags>>
    \o <<"txtime-delay", ToString(txtime_delay)>>
    \o <<"clockid", "CLOCK_TAI">>

\* The etf command of traffic class q of one interface.
EtfCommand(iface, handle_id, q, delta) ==
    <<"tc", "qdisc", "replace", "dev", iface, "parent",
      handle_id \o ":" \o ToString(q), "etf", "skip_sock_check", "offload",
      "delta", ToString(delta), "clockid", "CLOCK_TAI">>

\* a: the arguments as given (PyNone for an argument left out);
\* now: what time.time_ns() returns.
create_tc_qdisc_gcl_command(a, now) ==
    LET base_time == IF a.base_time = PyNone THEN now ELSE a.base_time.n
        map_str == IF a.map_str = PyNone THEN DefaultMapStr ELSE a.map_str
        queues_str ==
            IF a.queues_str = PyNone THEN DefaultQueuesStr ELSE a.queues_str
        handle_id ==
            IF a.handle_id = PyNone THEN "100" ELSE Render(a.handle_id)
        PerInterface(iface) ==
            <<TaprioCommand(iface, a.gcl, a.num_tc, base_time, map_str,
                            queues_str, handle_id, a.flags, a.txtime_delay)>>
            \o [q \in EtfClasses(a.num_tc) |->
                   EtfCommand(iface, handle_id, q, a.delta)]
    IN  ConcatAll([i \in 1..Len(a.interfaces) |->
                      PerInterface(a.interfaces[i])])

---------------------------------------------------------------------------
(* tc_command: the flower filter commands.                                 *)

IPPROTO_TCP == 6
IPPROTO_UDP == 17
IPPROTO_SCTP == 132
ProtocolNone == 65535
MaxPort == 65535

LowerHex == <<"0", "1", "2", "3", "4", "5", "6", "7",
              "8", "9", "a", "b", "c", "d", "e", "f">>

RECURSIVE ToLowerHex(_)
ToLowerHex(n) ==
    IF n < 16 THEN LowerHex[n + 1]
    ELSE ToLowerHex(n \div 16) \o LowerHex[(n % 16) + 1]

\* hex(n) for n >= 0.
Hex(n) ==
    "0x" \o ToLowerHex(n)

IsPortInRangeFromZero(port) ==
    0 <= port /\ port <= MaxPort

_is_port_in_range(port) ==
    1 <= port /\ port <= MaxPort

\* The protocol and port match of a flower filter: the text the function
\* returns, chunked into its words and the blanks between and after them.
_get_ip_protocol_and_ports_filter_configuration(protocol_number, destination_port, source_port) ==
    LET Ports(use_port) ==
            (IF _is_port_in_range(destination_port) /\ use_port
             THEN <<"dst_port", " ", ToString(destination_port), " ">>
             ELSE <<>>)
            \o (IF _is_port_in_range(source_port) /\ use_port
                THEN <<"src_port", " ", ToString(source_port), " ">>
                ELSE <<>>)
        Named(protocol_name, use_port) ==
            <<"ip_proto", " ", protocol_name, " ">> \o Ports(use_port)
    IN  IF protocol_number = ProtocolNone THEN <<>>
        ELSE IF protocol_number = IPPROTO_TCP THEN Named("tcp", TRUE)
        ELSE IF protocol_number = IPPROTO_UDP THEN Named("udp", TRUE)
        ELSE IF protocol_number = IPPROTO_SCTP THEN Named("sctp", TRUE)
        ELSE IF protocol_number <= 255
        THEN Named(Hex(protocol_number), FALSE)
        ELSE <<>>

\* The words a shell splits a chunked text into.
ShellWords(text) ==
    LET IsWord(c) == c # " "
    IN  SelectSeq(text, IsWord)

---------------------------------------------------------------------------
(* The configurations the documents of SpecGcl are parsed from.  An entry  *)
(* gives its numbers and how the file writes them: "int" (a YAML number),  *)
(* "str" (XML text) or "padded" (XML text with a leading zero).            *)

SetGateStates == "sched:set-gate-states"
OtherOperation == "sched:set-and-hold-mac"

NumberNode(n, repr) ==
    CASE repr = "int"    -> PyInt(n)
      [] repr = "str"    -> PyStr(DecChunks(n))
      [] repr = "padded" -> PyStr(<<"0">> \o DecChunks(n))

\* The text of a number as the file writes it.
NumberText(n, repr) ==
    IF repr = "padded" THEN "0" \o ToString(n) ELSE ToString(n)

EntryA == [op |-> SetGateStates, val |-> 15, repr |-> "str",
           ivl |-> 500000, irepr |-> "str"]
EntryB == [op |-> OtherOperation, val |-> 7, repr |-> "int",
           ivl |-> 1000, irepr |-> "int"]
EntryKinds == {EntryA, EntryB}

SeqsUpTo(S, n) ==
    UNION {[1..k -> S] : k \in 0..n}

\* An interface: its entries, and whether a single entry is a one-element
\* list (YAML) or a bare mapping (XML).
IfaceDescs ==
    {f \in [entries : SeqsUpTo(EntryKinds, MaxEntries), wrap : BOOLEAN] :
        f.wrap => Len(f.entries) = 1}

\* A document: its interfaces, whether a single interface is a one-element
\* list, and whether all its interfaces carry the same name.
DocDescs ==
    {d \in [ifaces : SeqsUpTo(IfaceDescs, MaxIfaces), wrap : BOOLEAN,
            same_name : BOOLEAN] :
        /\ d.wrap => Len(d.ifaces) = 1
        /\ d.same_name => Len(d.ifaces) > 1}

OneEntryDoc(e) ==
    [ifaces |-> <<[entries |-> <<e>>, wrap |-> FALSE]>>,
     wrap |-> FALSE, same_name |-> FALSE]

\* One document, one interface, one entry: every gate-states-value.
GateValueSources ==
    {<<OneEntryDoc([op |-> o, val |-> v, repr |-> r,
                    ivl |-> 500000, irepr |-> "str"])>> :
        o \in {SetGateStates, OtherOperation}, v \in 0..MaxGate,
        r \in {"int", "str", "padded"}}

SmallDocs ==
    {OneEntryDoc(e) : e \in EntryKinds}
    \cup {[ifaces |-> <<>>, wrap |-> FALSE, same_name |-> FALSE]}

Sources ==
    {<<d>> : d \in DocDescs}
    \cup UNION {[1..k -> SmallDocs] : k \in 2..MaxDocs}
    \cup GateValueSources

IfaceNames == [i \in 1..MaxIfaces |-> "eth" \o ToString(i - 1)]

BuildEntry(e) ==
    PyDict(<< <<"index", PyStr(<<"0">>)>>,
              <<"operation-name", PyStr(<<e.op>>)>>,
              <<"gate-states-value", NumberNode(e.val, e.repr)>>,
              <<"time-interval-value", NumberNode(e.ivl, e.irepr)>> >>)

BuildIface(f, name) ==
    LET es == [i \in 1..Len(f.entries) |-> BuildEntry(f.entries[i])]
        gate_entries == IF Len(es) = 1 /\ ~f.wrap THEN es[1] ELSE PyList(es)
        admin == PyDict(<< <<"gate-control-list-length",
                             PyStr(DecChunks(Len(es)))>>,
                           <<"gate-control-entry", gate_entries>> >>)
        table == PyDict(<< <<"gate-enabled", PyStr(<<"true">>)>>,
                           <<"admin-control-list", admin>> >>)
    IN  PyDict(<< <<"name", PyStr(<<name>>)>> >>
               \o (IF es = <<>> THEN <<>>
                   ELSE << <<"bridge-port",
                             PyDict(<< <<"gate-parameter-table", table>> >>)>> >>))

BuildDoc(d) ==
    LET ifs == [i \in 1..Len(d.ifaces) |->
                   BuildIface(d.ifaces[i],
                              IF d.same_name THEN IfaceNames[1]
                              ELSE IfaceNames[i])]
        interface == IF Len(ifs) = 1 /\ ~d.wrap THEN ifs[1] ELSE PyList(ifs)
    IN  IF ifs = <<>>
        THEN PyDict(<< <<"cnc-config", PyDict(<< <<"domain", PyNone>> >>)>> >>)
        ELSE PyDict(<< <<"interfaces",
                         PyDict(<< <<"interface", interface>> >>)>> >>)

BuildDocuments(src) ==
    [d \in 1..Len(src) |-> BuildDoc(src[d])]

---------------------------------------------------------------------------
(* SpecGcl: a document set is read, its gate-control entries are extracted *)
(* and formatted, and the qdisc commands are generated from them, as       *)
(* TIMEConfigHub.apply_config does.                                        *)

NoCall == [interfaces |-> <<>>]

\* The variables a specification does not use keep these values.
IdleDocs ==
    /\ source = <<>>
    /\ documents = <<>>

IdleGcl ==
    /\ entries = <<>>
    /\ formatted = <<>>
    /\ qdisc_args = NoCall
    /\ qdisc_cmds = <<>>

IdleProto ==
    /\ proto_args = <<>>
    /\ proto_cmd = <<>>

IdleTalker ==
    /\ all_talker_info = <<>>
    /\ vlan_time_aware = <<>>
    /\ vlan_non_time_aware = <<>>

IdleFilter ==
    /\ filter_call = <<>>
    /\ filter_cmds = <<>>
    /\ clsact_checks = <<>>
    /\ clsact_shown = {}

IdleReset ==
    /\ kernel = <<>>
    /\ reset_call = <<>>
    /\ reset_result = <<>>
    /\ tc_log = <<>>

IdleParser ==
    /\ files = <<>>
    /\ current_parser = <<>>
    /\ universal_documents = <<>>
    /\ parser_documents = <<>>
    /\ parse_call = <<>>
    /\ last_parsed = <<>>
    /\ helper = <<>>

IdleRead ==
    /\ parse_result = <<>>
    /\ chronos_found = <<>>
    /\ extraction = <<>>

IdleApply ==
    /\ apply_call = <<>>
    /\ apply_data = <<>>
    /\ apply_validated = <<>>
    /\ apply_kernel = <<>>
    /\ apply_log = <<>>
    /\ apply_result = <<>>

IdleWatch ==
    /\ clock = 0
    /\ _last_event_time = <<>>
    /\ executor_queue = <<>>
    /\ workers = <<>>
    /\ watch_files = <<>>
    /\ event_log = <<>>
    /\ applied = <<>>
    /\ tc_trace = <<>>

IdleShow ==
    /\ show_call = <<>>
    /\ show_out = <<>>
    /\ show_exit = <<>>

InitGcl ==
    /\ pc = "parsed"
    /\ source \in Sources
    /\ documents = BuildDocuments(source)
    /\ IdleGcl
    /\ IdleProto
    /\ IdleTalker
    /\ IdleFilter
    /\ IdleReset
    /\ IdleParser
    /\ IdleRead
    /\ IdleApply
    /\ IdleWatch
    /\ IdleShow

GetGateControlEntries ==
    /\ pc = "parsed"
    /\ entries' = get_gate_control_entries(documents)
    /\ pc' = "entries"
    /\ UNCHANGED <<docVars, formatted, qdisc_args, qdisc_cmds>>
    /\ UNCHANGED <<protoVars, talkerVars, filterVars, resetVars,
                 parserVars, readVars,
                 applyVars, watchVars, showVars>>

GetGateControlEntriesFormatted ==
    /\ pc = "entries"
    /\ formatted' = get_gate_control_entries_formatted(documents)
    /\ pc' = "formatted"
    /\ UNCHANGED <<docVars, entries, qdisc_args, qdisc_cmds>>
    /\ UNCHANGED <<protoVars, talkerVars, filterVars, resetVars,
                 parserVars, readVars,
                 applyVars, watchVars, showVars>>

\* The map_str that _apply_qdisc_configuration passes.
CoreMapStr ==
    <<"0", "0", "0", "0", "1", "1", "2", "3">> \o [i \in 1..8 |-> "0"]

CreateTcQdiscGclCommand ==
    /\ pc = "formatted"
    /\ \E num_tc \in 0..MaxNumTc,
          handle_id \in {PyNone, PyStr(<<"1">>)},
          base_time \in {PyNone, PyInt(1000)},
          map_str \in {PyNone, CoreMapStr} :
          LET a == [interfaces |-> get_interface_names(documents),
                    gcl |-> formatted,
                    num_tc |-> num_tc,
                    base_time |-> base_time,
                    map_str |-> map_str,
                    queues_str |-> PyNone,
                    handle_id |-> handle_id,
                    flags |-> "0x1",
                    txtime_delay |-> TxtimeDelayDefault,
                    delta |-> DeltaDefault]
          IN  /\ qdisc_args' = a
              /\ \E now \in {1700000000} :
                    qdisc_cmds' = create_tc_qdisc_gcl_command(a, now)
    /\ pc' = "qdisc"
    /\ UNCHANGED <<docVars, entries, formatted>>
    /\ UNCHANGED <<protoVars, talkerVars, filterVars, resetVars,
                 parserVars, readVars,
                 applyVars, watchVars, showVars>>

NextGcl ==
    \/ GetGateControlEntries
    \/ GetGateControlEntriesFormatted
    \/ CreateTcQdiscGclCommand

SpecGcl == InitGcl /\ [][NextGcl]_vars

---------------------------------------------------------------------------
(* Claims about the gate-control pipeline.                                 *)

IsTaprio(c) ==
    /\ Len(c) >= 10
    /\ SubSeq(c, 1, 4) = <<"tc", "qdisc", "replace", "dev">>
    /\ SubSeq(c, 6, 8) = <<"parent", "root", "handle">>
    /\ c[10] = "taprio"

IsEtf(c) ==
    /\ Len(c) >= 8
    /\ SubSeq(c, 1, 4) = <<"tc", "qdisc", "replace", "dev">>
    /\ c[6] = "parent"
    /\ c[8] = "etf"

\* C1: create_tc_qdisc_gcl_command returns, for k interfaces and num_tc = n,
\* exactly k*(n+1) commands: per interface, in input order, one taprio
\* command followed by the etf commands of the classes 1..n in ascending
\* order, each on the same interface with parent <handle of the taprio>:<q>.
C1_QdiscLayout ==
    pc = "qdisc" =>
        LET ifs == qdisc_args.interfaces
            n == qdisc_args.num_tc
        IN  /\ Len(qdisc_cmds) = Len(ifs) * (n + 1)
            /\ \A i \in 1..Len(ifs) :
                  LET taprio == qdisc_cmds[(i - 1) * (n + 1) + 1]
                  IN  /\ IsTaprio(taprio)
                      /\ taprio[5] = ifs[i]
                      /\ \A q \in 1..n :
                            LET etf == qdisc_cmds[(i - 1) * (n + 1) + 1 + q]
                            IN  /\ IsEtf(etf)
                                /\ etf[5] = ifs[i]
                                /\ etf[7] = taprio[9] \o ":" \o ToString(q)

C1_Witness ==
    /\ pc = "qdisc"
    /\ Len(qdisc_args.interfaces) >= 2
    /\ qdisc_args.num_tc >= 2
    /\ qdisc_args.interfaces[1] = qdisc_args.interfaces[2]

\* The entries of a configuration in document order: documents in order,
\* interfaces in order within a document, entries in order within an
\* interface.
SourceEntries(src) ==
    ConcatAll([d \in 1..Len(src) |->
                  ConcatAll([i \in 1..Len(src[d].ifaces) |->
                                src[d].ifaces[i].entries])])

\* The sched-entry words of a taprio command: what stands between the
\* base-time value and the flags.
SchedWords(c) ==
    LET b == CHOOSE i \in 1..Len(c) : c[i] = "base-time"
        f == CHOOSE i \in 1..Len(c) :
                 c[i] = "flags" /\ \A j \in (i + 1)..Len(c) : c[j] # "flags"
    IN  SubSeq(c, b + 2, f - 1)

\* C2: gate-control entries keep document order end to end:
\* get_gate_control_entries returns the entries of the configuration in
\* document order (a single entry counts as a one-element list),
\* get_gate_control_entries_formatted maps them one to one in that order,
\* and every taprio command lists exactly the sched-entry strings of its
\* gcl argument, in order, none dropped, duplicated or reordered.
C2_DocumentOrder ==
    LET expected == SourceEntries(source)
    IN  /\ pc \in {"entries", "formatted", "qdisc"} =>
              entries = [i \in 1..Len(expected) |-> BuildEntry(expected[i])]
        /\ pc \in {"formatted", "qdisc"} =>
              /\ Len(formatted) = Len(expected)
              /\ \A i \in 1..Len(expected) :
                    /\ Len(formatted[i]) = 4
                    /\ formatted[i][1] = "sched-entry"
                    /\ formatted[i][2] = "S" <=> expected[i].op = SetGateStates
                    /\ formatted[i][4] =
                           NumberText(expected[i].ivl, expected[i].irepr)
        /\ pc = "qdisc" =>
              /\ qdisc_args.gcl = formatted
              /\ \A c \in 1..Len(qdisc_cmds) :
                    IsTaprio(qdisc_cmds[c]) =>
                        SchedWords(qdisc_cmds[c]) = ConcatAll(qdisc_args.gcl)

C2_Witness ==
    /\ pc = "qdisc"
    /\ Len(source) = 1
    /\ Len(source[1].ifaces) = 2
    /\ source[1].ifaces[1].entries = <<EntryB, EntryA>>
    /\ source[1].ifaces[2].entries = <<EntryA>>
    /\ Len(qdisc_cmds) > 1

\* C3: get_gate_control_entries_formatted renders every entry once and in
\* order: a set-gate-states entry with value v in 0..255 and interval t is
\* "sched-entry S <HH> <t>", <HH> being v as exactly two upper-case
\* hexadecimal digits; an entry with another operation is
\* "sched-entry ? <v> <t>" with v as the document writes it.
C3_FormattedEntries ==
    pc \in {"formatted", "qdisc"} =>
        LET expected == SourceEntries(source)
        IN  /\ Len(formatted) = Len(expected)
            /\ \A i \in 1..Len(expected) :
                  LET e == expected[i]
                      t == NumberText(e.ivl, e.irepr)
                  IN  IF e.op = SetGateStates
                      THEN e.val <= 255 =>
                               \E hi \in 0..15, lo \in 0..15 :
                                   /\ e.val = 16 * hi + lo
                                   /\ formatted[i] =
                                          <<"sched-entry", "S",
                                            UpperHex[hi + 1] \o UpperHex[lo + 1],
                                            t>>
                      ELSE formatted[i] =
                               <<"sched-entry", "?",
                                 NumberText(e.val, e.repr), t>>

C3_Witness ==
    /\ pc = "formatted"
    /\ formatted = << <<"sched-entry", "S", "0F", "500000">>,
                      <<"sched-entry", "?", "7", "1000">> >>

---------------------------------------------------------------------------
(* SpecProto: _get_ip_protocol_and_ports_filter_configuration applied to   *)
(* protocol numbers and ports around every boundary of its case analysis.  *)

Protocols == (0..MaxProtocol) \cup {4095, 65534, 65535}
PortSamples == {0, 1, 8080, 65535, 65536}

InitProto ==
    /\ pc = "args"
    /\ proto_args \in [protocol : Protocols, dst_port : PortSamples,
                       src_port : PortSamples]
    /\ proto_cmd = <<>>
    /\ IdleDocs
    /\ IdleGcl
    /\ IdleTalker
    /\ IdleFilter
    /\ IdleReset
    /\ IdleParser
    /\ IdleRead
    /\ IdleApply
    /\ IdleWatch
    /\ IdleShow

GetIpProtocolAndPortsFilterConfiguration ==
    /\ pc = "args"
    /\ proto_cmd' = _get_ip_protocol_and_ports_filter_configuration(
                        proto_args.protocol, proto_args.dst_port,
                        proto_args.src_port)
    /\ pc' = "proto"
    /\ UNCHANGED <<proto_args, docVars, gclVars, talkerVars, filterVars, resetVars,
                 parserVars, readVars,
                 applyVars, watchVars, showVars>>

NextProto ==
    GetIpProtocolAndPortsFilterConfiguration

SpecProto == InitProto /\ [][NextProto]_vars

\* hex(n) of a number below 256.
HexNumeral(n) ==
    "0x" \o (IF n \div 16 = 0 THEN "" ELSE LowerHex[(n \div 16) + 1])
         \o LowerHex[(n % 16) + 1]

---------------------------------------------------------------------------
(* The documents of SpecTalker.                                            *)

Txt(s) == PyStr(<<s>>)

SourceMacText == PyStr(<<"aa", "-", "bb", "-", "cc", "-", "dd", "-", "ee", "-", "ff">>)
DestinationMacText == PyStr(<<"11", "-", "22", "-", "33", "-", "44", "-", "55", "-", "66">>)

CfgVlan ==
    PyDict(<< <<"index", Txt("0")>>,
              <<"ieee802-vlan-tag",
                PyDict(<< <<"priority-code-point", Txt("3")>>,
                          <<"vlan-id", Txt("22")>> >>)>> >>)
CfgMac ==
    PyDict(<< <<"index", Txt("1")>>,
              <<"ieee802-mac-addresses",
                PyDict(<< <<"destination-mac-address", DestinationMacText>>,
                          <<"source-mac-address", SourceMacText>> >>)>> >>)
CfgOffset ==
    PyDict(<< <<"index", Txt("2")>>, <<"time-aware-offset", Txt("100")>> >>)
CfgOffsetZero ==
    PyDict(<< <<"index", Txt("2")>>, <<"time-aware-offset", Txt("0")>> >>)
CfgOffsetBlankZero ==
    PyDict(<< <<"index", Txt("2")>>,
              <<"time-aware-offset", PyStr(<<" ", "0.0", "\n">>)>> >>)
CfgTimeAware ==
    PyDict(<< <<"index", Txt("3")>>,
              <<"time-aware",
                PyDict(<< <<"earliest-transmit-offset", Txt("500")>>,
                          <<"latest-transmit-offset", Txt("900")>> >>)>> >>)
CfgTimeAwareZero ==
    PyDict(<< <<"index", Txt("3")>>,
              <<"time-aware",
                PyDict(<< <<"earliest-transmit-offset", Txt("0")>>,
                          <<"latest-transmit-offset", Txt("0.0")>> >>)>> >>)
CfgTimeAwareLatestOnly ==
    PyDict(<< <<"index", Txt("3")>>,
              <<"time-aware",
                PyDict(<< <<"latest-transmit-offset", PyInt(0)>> >>)>> >>)

CfgKinds ==
    {CfgVlan, CfgMac, CfgOffset, CfgOffsetZero, CfgOffsetBlankZero,
     CfgTimeAware, CfgTimeAwareZero, CfgTimeAwareLatestOnly}

\* A talker: its interface name (PyNone: none), its config-list, and
\* whether a single config-list entry is a one-element list.
BuildTalker(interface_name, cfgs, wrap) ==
    PyDict(<< <<"end-station-interfaces",
                PyDict(<< <<"mac-address", SourceMacText>> >>)>>,
              <<"interface-configuration",
                PyDict(<< <<"interface-list",
                            PyDict((IF interface_name = PyNone THEN <<>>
                                    ELSE << <<"interface-name",
                                              interface_name>> >>)
                                   \o (IF cfgs = <<>> THEN <<>>
                                       ELSE << <<"config-list",
                                                 IF Len(cfgs) = 1 /\ ~wrap
                                                 THEN cfgs[1]
                                                 ELSE PyList(cfgs)>> >>))>> >>)>> >>)

BuildStream(stream_id, talkers, wrap) ==
    PyDict((IF stream_id = PyNone THEN <<>>
            ELSE << <<"stream-id", stream_id>> >>)
           \o (IF talkers = <<>> THEN <<>>
               ELSE << <<"talker", IF Len(talkers) = 1 /\ ~wrap
                                   THEN talkers[1] ELSE PyList(talkers)>> >>))

\* A document with one domain and one cuc.
BuildStreamsDoc(streams) ==
    PyDict(<< <<"cnc-config",
                PyDict(<< <<"domain",
                            PyDict(<< <<"cuc",
                                        PyDict(<< <<"stream",
                                                    IF Len(streams) = 1
                                                    THEN streams[1]
                                                    ELSE PyList(streams)>> >>)>> >>)>> >>)>> >>)

\* One stream, one talker, every config-list of up to MaxCfgs entries.
ConfigListDocs ==
    {BuildStreamsDoc(<<BuildStream(Txt("s1"),
                                   <<BuildTalker(Txt("eth0"), cfgs, wrap)>>,
                                   FALSE)>>) :
        cfgs \in SeqsUpTo(CfgKinds, MaxCfgs), wrap \in BOOLEAN}

TalkerKinds ==
    {BuildTalker(Txt("eth0"), <<CfgVlan, CfgOffset>>, TRUE),
     BuildTalker(Txt("eth1"), <<CfgVlan, CfgMac>>, TRUE),
     BuildTalker(Txt("eth0"), <<CfgTimeAware>>, FALSE),
     BuildTalker(PyNone, <<CfgVlan>>, FALSE)}

StreamIdPairs ==
    {<<Txt("s1"), Txt("s2")>>, <<Txt("s1"), Txt("s1")>>, <<Txt("s1"), PyNone>>}

\* Two streams, each with up to MaxTalkers talkers.
StreamDocs ==
    {BuildStreamsDoc(<<BuildStream(ids[1], t1, w), BuildStream(ids[2], t2, w)>>) :
        ids \in StreamIdPairs, t1 \in SeqsUpTo(TalkerKinds, MaxTalkers),
        t2 \in SeqsUpTo(TalkerKinds, MaxTalkers), w \in BOOLEAN}

\* Several domains and several cucs.
NestedDoc ==
    LET Cuc(id, cfgs) ==
            PyDict(<< <<"stream",
                        BuildStream(Txt(id),
                                    <<BuildTalker(Txt("eth0"), cfgs, TRUE)>>,
                                    FALSE)>> >>)
    IN  PyDict(<< <<"cnc-config",
                    PyDict(<< <<"domain",
                                PyList(<< PyDict(<< <<"cuc",
                                                      PyList(<<Cuc("s1", <<CfgVlan>>),
                                                               Cuc("s2", <<CfgVlan, CfgOffset>>)>>)>> >>),
                                          PyDict(<< <<"cuc", Cuc("s1", <<CfgVlan, CfgTimeAware>>)>> >>) >>)>> >>)>> >>)

TalkerDocumentSets ==
    {<<d>> : d \in ConfigListDocs \cup StreamDocs}
    \cup {<<NestedDoc>>, <<NestedDoc, NestedDoc>>, <<>>}

---------------------------------------------------------------------------
(* SpecTalker: the talkers of a document set are extracted and classified, *)
(* as TIMEConfigHub._apply_filter_configuration does.                      *)

InitTalker ==
    /\ pc = "parsed"
    /\ source = <<>>
    /\ documents \in TalkerDocumentSets
    /\ IdleTalker
    /\ IdleGcl
    /\ IdleProto
    /\ IdleFilter
    /\ IdleReset
    /\ IdleParser
    /\ IdleRead
    /\ IdleApply
    /\ IdleWatch
    /\ IdleShow

GetAllTalkerStreamInfo ==
    /\ pc = "parsed"
    /\ all_talker_info' = get_all_talker_stream_info(documents)
    /\ pc' = "talkers"
    /\ UNCHANGED <<vlan_time_aware, vlan_non_time_aware>>
    /\ UNCHANGED <<docVars, gclVars, protoVars, filterVars, resetVars,
                 parserVars, readVars,
                 applyVars, watchVars, showVars>>

GetVlanTaggedTimeAwareTalkerInfo ==
    /\ pc = "talkers"
    /\ vlan_time_aware' = get_vlan_tagged_time_aware_talker_info(all_talker_info)
    /\ pc' = "time_aware"
    /\ UNCHANGED <<all_talker_info, vlan_non_time_aware>>
    /\ UNCHANGED <<docVars, gclVars, protoVars, filterVars, resetVars,
                 parserVars, readVars,
                 applyVars, watchVars, showVars>>

GetVlanTaggedNonTimeAwareTalkerInfo ==
    /\ pc = "time_aware"
    /\ vlan_non_time_aware' =
           get_vlan_tagged_non_time_aware_talker_info(all_talker_info)
    /\ pc' = "classified"
    /\ UNCHANGED <<all_talker_info, vlan_time_aware>>
    /\ UNCHANGED <<docVars, gclVars, protoVars, filterVars, resetVars,
                 parserVars, readVars,
                 applyVars, watchVars, showVars>>

NextTalker ==
    \/ GetAllTalkerStreamInfo
    \/ GetVlanTaggedTimeAwareTalkerInfo
    \/ GetVlanTaggedNonTimeAwareTalkerInfo

SpecTalker == InitTalker /\ [][NextTalker]_vars

---------------------------------------------------------------------------
(* Claims about the talker extraction and classification.                  *)

\* The talkers a talker map holds for a stream id; none when it has no
\* such stream.
TalkersOf(info, stream_id) ==
    IF \E i \in 1..Len(info) : info[i][1] = stream_id
    THEN info[CHOOSE i \in 1..Len(info) : info[i][1] = stream_id][2]
    ELSE <<>>

StreamIdsOf(info) ==
    [i \in 1..Len(info) |-> info[i][1]]

\* Whether a sequence is a subsequence of another, in the same order.
RECURSIVE IsSubsequence(_, _)
IsSubsequence(s, t) ==
    IF s = <<>> THEN TRUE
    ELSE IF t = <<>> THEN FALSE
    ELSE IF Head(s) = Head(t) THEN IsSubsequence(Tail(s), Tail(t))
    ELSE IsSubsequence(s, Tail(t))

\* C8: the two VLAN filters partition the VLAN-tagged talkers of a talker
\* map: every talker with vlan_tag is in exactly one result (the time-aware
\* one iff time_aware), under its stream id and in its original relative
\* order; a talker without vlan_tag is in neither; a stream with no
\* matching talker is absent from the result, never there with an empty
\* list.
C8_VlanPartition ==
    pc = "classified" =>
        LET TimeAware(t) == t.vlan_tag /\ t.time_aware
            NotTimeAware(t) == t.vlan_tag /\ ~t.time_aware
            Tagged(t) == t.vlan_tag
        IN  /\ \A i \in 1..Len(all_talker_info) :
                  LET stream_id == all_talker_info[i][1]
                      talkers == all_talker_info[i][2]
                      ta == TalkersOf(vlan_time_aware, stream_id)
                      nta == TalkersOf(vlan_non_time_aware, stream_id)
                  IN  /\ ta = SelectSeq(talkers, TimeAware)
                      /\ nta = SelectSeq(talkers, NotTimeAware)
                      /\ Len(ta) + Len(nta) = Len(SelectSeq(talkers, Tagged))
                      /\ \A a \in 1..Len(ta), b \in 1..Len(nta) : ta[a] # nta[b]
            /\ \A result \in {vlan_time_aware, vlan_non_time_aware} :
                  /\ \A i \in 1..Len(result) : result[i][2] # <<>>
                  /\ \A i, j \in 1..Len(result) :
                        result[i][1] = result[j][1] => i = j
                  /\ IsSubsequence(StreamIdsOf(result),
                                   StreamIdsOf(all_talker_info))

C8_Witness ==
    /\ pc = "classified"
    /\ Len(all_talker_info) = 2
    /\ Len(all_talker_info[1][2]) = 2
    /\ all_talker_info[1][2][1].vlan_tag
    /\ all_talker_info[1][2][1].time_aware
    /\ all_talker_info[1][2][2].vlan_tag
    /\ ~all_talker_info[1][2][2].time_aware
    /\ ~all_talker_info[2][2][1].vlan_tag
    /\ Len(vlan_time_aware) = 1
    /\ Len(vlan_non_time_aware) = 1

\* Present and not a zero-equivalent value ("0", "0.0", empty).
IsPresentNonZero(v) ==
    /\ v # PyNone
    /\ Flat(Strip(StrChunks(v))) \notin {"0", "0.0", ""}

AllTalkers(info) ==
    ConcatAll([i \in 1..Len(info) |-> info[i][2]])

\* C9: every talker record of get_all_talker_stream_info has time_aware
\* true iff one of its time_aware_offset, earliest_transmit_offset,
\* latest_transmit_offset is present and not zero-equivalent.
C9_TimeAwareIffOffset ==
    pc \in {"talkers", "time_aware", "classified"} =>
        \A i \in 1..Len(AllTalkers(all_talker_info)) :
            LET t == AllTalkers(all_talker_info)[i]
            IN  t.time_aware <=>
                    \/ IsPresentNonZero(t.time_aware_offset)
                    \/ IsPresentNonZero(t.earliest_transmit_offset)
                    \/ IsPresentNonZero(t.latest_transmit_offset)

---------------------------------------------------------------------------
(* tc_command: the flower filter generators.                               *)

\* `for stream_id, talkers in info.items(): for talker in talkers`: the
\* talkers of a talker map in the order the loops visit them.
TalkersInOrder(info) ==
    ConcatAll([i \in 1..Len(info) |-> info[i][2]])

SkipTalkerNoneOnly(interface) ==
    interface = PyNone

\* `if not interface: continue`
SkipTalker(interface) ==
    ~Truthy(interface)

\* `int(x) if x is not None else default`
IntOrDefault(x, default) ==
    IF x # PyNone THEN ToInt(x) ELSE default

MatchClauseAlways(name, value) ==
    <<name, Render(value)>>

\* `if value: cmd += f"{name} {value} "`
MatchClause(name, value) ==
    IF Truthy(value) THEN <<name, Render(value)>> ELSE <<>>

\* f"tc qdisc add dev {interface} clsact"
ClsactCommand(interface) ==
    <<"tc", "qdisc", "add", "dev", Render(interface), "clsact">>

\* `"clsact" in result.stdout` of `tc qdisc show dev <interface>`; False
\* when the query cannot be run.
_clsact_exists(interface) ==
    Render(interface) \in clsact_shown

\* The action part of a filter command.
VlanPushAction(vlan_id, vlan_prio) ==
    <<"action", "vlan", "push", "id", Render(vlan_id),
      "protocol", "802.1Q", "priority", Render(vlan_prio), "pipe",
      "action", "skbedit", "priority", Render(vlan_prio)>>

\* The filter command of one talker that has an interface name; both
\* generators build it the same way.
FilterCommand(talker) ==
    LET proto_num == IntOrDefault(talker.ip_protocol, ProtocolNone)
        dst_port_num == IntOrDefault(talker.destination_port, 0)
        src_port_num == IntOrDefault(talker.source_port, 0)
        layer3_proto_cmd ==
            _get_ip_protocol_and_ports_filter_configuration(
                proto_num, dst_port_num, src_port_num)
    IN  <<"tc", "filter", "add", "dev", Render(talker.interface_name),
          "egress", "protocol", "ip", "flower">>
        \o MatchClause("src_mac", talker.source_mac)
        \o MatchClause("dst_mac", talker.destination_mac)
        \o MatchClause("src_ip", talker.source_ip)
        \o MatchClause("dst_ip", talker.destination_ip)
        \o ShellWords(layer3_proto_cmd)
        \o VlanPushAction(talker.vlan_id, talker.vlan_priority)

AddProcessedForgetful(processed_ifaces, interface) ==
    processed_ifaces

\* processed_ifaces.add(interface)
AddProcessed(processed_ifaces, interface) ==
    processed_ifaces \cup {interface}

RECURSIVE TimeAwareLoop(_, _)
\* The loop of the time-aware generator over the talkers left; st holds
\* commands and processed_ifaces, and the _clsact_exists calls made.
TimeAwareLoop(talkers, st) ==
    IF talkers = <<>> THEN st
    ELSE LET talker == Head(talkers)
             interface == talker.interface_name
             first_seen == interface \notin st.processed_ifaces
             missing == first_seen /\ ~_clsact_exists(interface)
             with_clsact ==
                 IF missing THEN Append(st.commands, ClsactCommand(interface))
                 ELSE st.commands
         IN  IF SkipTalker(interface) THEN TimeAwareLoop(Tail(talkers), st)
             ELSE TimeAwareLoop(Tail(talkers),
                      [commands |-> Append(with_clsact, FilterCommand(talker)),
                       processed_ifaces |->
                           IF first_seen
                           THEN AddProcessed(st.processed_ifaces, interface)
                           ELSE st.processed_ifaces,
                       checks |->
                           IF first_seen
                           THEN Append(st.checks, Render(interface))
                           ELSE st.checks])

create_tc_filter_commands_for_time_aware_talkers(vlan_time_aware_info) ==
    TimeAwareLoop(TalkersInOrder(vlan_time_aware_info),
                  [commands |-> <<>>, processed_ifaces |-> {}, checks |-> <<>>])

RECURSIVE NonTimeAwareLoop(_, _)
\* The loop of the non-time-aware generator over the talkers left.
NonTimeAwareLoop(talkers, commands) ==
    IF talkers = <<>> THEN commands
    ELSE IF SkipTalker(Head(talkers).interface_name)
    THEN NonTimeAwareLoop(Tail(talkers), commands)
    ELSE NonTimeAwareLoop(Tail(talkers),
                          Append(commands, FilterCommand(Head(talkers))))

create_tc_filter_commands_for_non_time_aware_talkers(vlan_non_time_aware_info) ==
    NonTimeAwareLoop(TalkersInOrder(vlan_non_time_aware_info), <<>>)

---------------------------------------------------------------------------
(* SpecFilter: the talker map of a configuration is classified and the two *)
(* filter generators are called on the results, as                         *)
(* TIMEConfigHub._apply_filter_configuration does.  The talker maps are    *)
(* given as get_all_talker_stream_info returns them.                       *)

\* A talker_entry with the given attributes; every talker here carries a
\* VLAN tag, so that one of the two generators receives it.
MakeTalker(f) ==
    [interface_name |-> f.interface_name,
     interface_mac |-> PyNone,
     source_mac |-> f.source_mac,
     destination_mac |-> f.destination_mac,
     source_ip |-> f.source_ip,
     destination_ip |-> f.destination_ip,
     dscp |-> PyNone,
     ip_protocol |-> f.ip_protocol,
     source_port |-> f.source_port,
     destination_port |-> f.destination_port,
     vlan_tag |-> TRUE,
     vlan_id |-> f.vlan_id,
     vlan_priority |-> f.vlan_priority,
     time_aware |-> f.time_aware,
     time_aware_offset |-> IF f.time_aware THEN Txt("500") ELSE PyNone,
     earliest_transmit_offset |-> PyNone,
     latest_transmit_offset |-> PyNone]

Eth0 == Txt("eth0")
Eth1 == Txt("eth1")
EmptyText == PyStr(<<>>)

\* Talkers alone in their map, over the attributes a filter command is
\* built from: absent, empty, text and numbers.
SingleTalkers ==
    {MakeTalker(f) : f \in
        [interface_name : {PyNone, EmptyText, Eth0},
         source_mac : {PyNone, Txt("aa:bb:cc:dd:ee:ff")},
         destination_mac : {PyNone, Txt("11:22:33:44:55:66")},
         source_ip : {PyNone, EmptyText, Txt("192.168.1.10")},
         destination_ip : {PyNone, Txt("192.168.1.20")},
         ip_protocol : {PyNone, PyStr(DecChunks(IPPROTO_UDP)),
                        PyInt(IPPROTO_TCP), PyStr(DecChunks(1)),
                        PyStr(DecChunks(300))},
         destination_port : {PyNone, PyStr(DecChunks(8080)), PyInt(0)},
         source_port : {PyNone, PyStr(DecChunks(5000))},
         vlan_id : {PyStr(DecChunks(100)), PyInt(22)},
         vlan_priority : {PyStr(DecChunks(3)), PyInt(2)},
         time_aware : BOOLEAN]}

SingleTalkerMaps ==
    {<< <<"s1", <<t>> >> >> : t \in SingleTalkers}

\* The talkers of a batch differ in their interface and their class.
BatchTalkers ==
    {MakeTalker([interface_name |-> i,
                 source_mac |-> Txt("aa:bb:cc:dd:ee:ff"),
                 destination_mac |-> PyNone,
                 source_ip |-> PyNone,
                 destination_ip |-> PyNone,
                 ip_protocol |-> PyNone,
                 destination_port |-> PyNone,
                 source_port |-> PyNone,
                 vlan_id |-> PyInt(100),
                 vlan_priority |-> PyInt(3),
                 time_aware |-> ta]) :
        i \in {PyNone, EmptyText, Eth0, Eth1}, ta \in BOOLEAN}

\* A batch as a talker map: its first j talkers in stream s1, the others
\* in stream s2.
SplitBatch(batch, j) ==
    LET k == IF j < Len(batch) THEN j ELSE Len(batch)
    IN  IF batch = <<>> THEN <<>>
        ELSE IF k = Len(batch) THEN << <<"s1", batch>> >>
        ELSE << <<"s1", SubSeq(batch, 1, k)>>,
                <<"s2", SubSeq(batch, k + 1, Len(batch))>> >>

BatchMaps ==
    {SplitBatch(batch, j) : batch \in SeqsUpTo(BatchTalkers, MaxBatch),
                            j \in 1..MaxBatch}

\* Talkers whose ieee802-vlan-tag block lacks vlan-id or
\* priority-code-point: vlan_tag is True and the attribute is None.
PartialVlanTalkers ==
    {MakeTalker([interface_name |-> Eth0,
                 source_mac |-> Txt("aa:bb:cc:dd:ee:ff"),
                 destination_mac |-> PyNone,
                 source_ip |-> PyNone,
                 destination_ip |-> PyNone,
                 ip_protocol |-> PyNone,
                 destination_port |-> PyNone,
                 source_port |-> PyNone,
                 vlan_id |-> id,
                 vlan_priority |-> prio,
                 time_aware |-> ta]) :
        id \in {PyNone, PyInt(100)}, prio \in {PyNone, PyInt(3)},
        ta \in BOOLEAN}

PartialVlanMaps ==
    {<< <<"s1", <<t>> >> >> : t \in PartialVlanTalkers}

InitFilter ==
    /\ pc = "classified"
    /\ all_talker_info \in SingleTalkerMaps \cup BatchMaps \cup PartialVlanMaps
    /\ vlan_time_aware =
           get_vlan_tagged_time_aware_talker_info(all_talker_info)
    /\ vlan_non_time_aware =
           get_vlan_tagged_non_time_aware_talker_info(all_talker_info)
    /\ clsact_shown \in SUBSET {"eth0", "eth1"}
    /\ "eth1" \in clsact_shown => all_talker_info \in BatchMaps
    /\ filter_call = <<>>
    /\ filter_cmds = <<>>
    /\ clsact_checks = <<>>
    /\ IdleDocs
    /\ IdleGcl
    /\ IdleProto
    /\ IdleReset
    /\ IdleParser
    /\ IdleRead
    /\ IdleApply
    /\ IdleWatch
    /\ IdleShow

CreateTcFilterCommandsForTimeAwareTalkers ==
    /\ pc = "classified"
    /\ LET st == create_tc_filter_commands_for_time_aware_talkers(
                     vlan_time_aware)
       IN  /\ filter_call' = [generator |-> "time_aware",
                              info |-> vlan_time_aware]
           /\ filter_cmds' = st.commands
           /\ clsact_checks' = st.checks
    /\ pc' = "time_aware_generated"
    /\ UNCHANGED <<docVars, gclVars, protoVars, talkerVars, clsact_shown, resetVars,
                 parserVars, readVars,
                 applyVars, watchVars, showVars>>

CreateTcFilterCommandsForNonTimeAwareTalkers ==
    /\ pc = "time_aware_generated"
    /\ filter_call' = [generator |-> "non_time_aware",
                       info |-> vlan_non_time_aware]
    /\ filter_cmds' =
           create_tc_filter_commands_for_non_time_aware_talkers(
               vlan_non_time_aware)
    /\ clsact_checks' = <<>>
    /\ pc' = "generated"
    /\ UNCHANGED <<docVars, gclVars, protoVars, talkerVars, clsact_shown, resetVars,
                 parserVars, readVars,
                 applyVars, watchVars, showVars>>

NextFilter ==
    \/ CreateTcFilterCommandsForTimeAwareTalkers
    \/ CreateTcFilterCommandsForNonTimeAwareTalkers

SpecFilter ==
    InitFilter /\ [][NextFilter]_vars

---------------------------------------------------------------------------
(* Claims about the filter generators.                                     *)

IsFilterCommand(c) ==
    /\ Len(c) >= 9
    /\ SubSeq(c, 1, 4) = <<"tc", "filter", "add", "dev">>
    /\ SubSeq(c, 6, 9) = <<"egress", "protocol", "ip", "flower">>

IsClsactCommand(c) ==
    /\ Len(c) = 6
    /\ SubSeq(c, 1, 4) = <<"tc", "qdisc", "add", "dev">>
    /\ c[6] = "clsact"

\* The interface a filter or clsact command is for.
Device(c) ==
    c[5]

\* A field of a talker record is present when it has a non-empty value.
IsPresent(v) ==
    v # PyNone /\ Render(v) # ""

HasInterfaceName(t) ==
    IsPresent(t.interface_name)

\* The talkers of the generator call at hand that have an interface name.
NamedTalkers ==
    SelectSeq(AllTalkers(filter_call.info), HasInterfaceName)

FilterCommands ==
    SelectSeq(filter_cmds, IsFilterCommand)

GeneratorReturned ==
    pc \in {"time_aware_generated", "generated"}

\* The words of a filter command between `flower` and the action part.
MatchPart(c) ==
    SubSeq(c, 10, Len(c) - 14)

\* The match part holds the clause `name value` once when the value is
\* present, and not at all when it is absent.
ClauseIffPresent(match, name, v) ==
    LET at == {j \in 1..Len(match) : match[j] = name}
    IN  IF IsPresent(v)
        THEN /\ Cardinality(at) = 1
             /\ \A j \in at : j < Len(match) /\ match[j + 1] = Render(v)
        ELSE at = {}

ClsactAt(iface) ==
    {i \in 1..Len(filter_cmds) :
        IsClsactCommand(filter_cmds[i]) /\ Device(filter_cmds[i]) = iface}

FilterAt(iface) ==
    {i \in 1..Len(filter_cmds) :
        IsFilterCommand(filter_cmds[i]) /\ Device(filter_cmds[i]) = iface}

\* The interfaces that appear on a talker of the generator call at hand.
CallInterfaces ==
    {Render(NamedTalkers[i].interface_name) : i \in 1..Len(NamedTalkers)}

\* C6: in one call of the time-aware generator, an interface of some talker
\* on which no clsact is detected gets exactly one clsact command, before
\* every filter command for it; one on which a clsact is detected gets no
\* clsact command; the check is made at most once per interface.
C6_ClsactOncePerInterface ==
    pc = "time_aware_generated" =>
        \A iface \in CallInterfaces :
            /\ iface \notin clsact_shown =>
                   /\ Cardinality(ClsactAt(iface)) = 1
                   /\ \A i \in ClsactAt(iface), j \in FilterAt(iface) : i < j
            /\ iface \in clsact_shown => ClsactAt(iface) = {}
            /\ Cardinality({k \in 1..Len(clsact_checks) :
                               clsact_checks[k] = iface}) <= 1

C6_Witness ==
    /\ pc = "time_aware_generated"
    /\ Len(filter_call.info) = 2
    /\ CallInterfaces = {"eth0", "eth1"}
    /\ clsact_shown = {"eth1"}
    /\ Cardinality(FilterAt("eth0")) = 2
    /\ Cardinality(FilterAt("eth1")) = 1
    /\ Render(filter_call.info[1][2][1].interface_name) = "eth0"
    /\ Render(filter_call.info[2][2][1].interface_name) = "eth0"
    /\ Len(filter_cmds) = 4

\* C7: the non-time-aware generator puts a clsact command before the first
\* filter command of every interface of the call on which no clsact is
\* detected.
C7_NonTimeAwareClsact ==
    pc = "generated" =>
        \A iface \in CallInterfaces :
            iface \notin clsact_shown =>
                /\ ClsactAt(iface) # {}
                /\ \A j \in FilterAt(iface) :
                       \E i \in ClsactAt(iface) : i < j

\* C10: both generators skip a talker with no interface name (absent or
\* empty): the filter commands are as many as the talkers that have an
\* interface name, and every command, filter or clsact, is for the
\* interface of such a talker.
C10_SkipUnnamedTalkers ==
    GeneratorReturned =>
        /\ Len(FilterCommands) = Len(NamedTalkers)
        /\ \A i \in 1..Len(filter_cmds) :
              /\ IsFilterCommand(filter_cmds[i]) \/ IsClsactCommand(filter_cmds[i])
              /\ Device(filter_cmds[i]) \in CallInterfaces
              /\ Device(filter_cmds[i]) \notin {"", "None"}
        /\ \A k \in 1..Len(clsact_checks) : clsact_checks[k] \in CallInterfaces

\* A batch of a talker without interface name, one with an empty name and
\* one on eth0, given to either generator.
C10_Witness ==
    /\ GeneratorReturned
    /\ Len(AllTalkers(filter_call.info)) = 3
    /\ AllTalkers(filter_call.info)[1].interface_name = PyNone
    /\ AllTalkers(filter_call.info)[2].interface_name = EmptyText
    /\ AllTalkers(filter_call.info)[3].interface_name = Eth0
    /\ Len(FilterCommands) = 1

---------------------------------------------------------------------------
(* tc_command and core: the reset operations.  One interface is reset; the *)
(* kernel holds for it whether egress filters, a clsact qdisc and a root   *)
(* qdisc are configured.  A run_tc_command call succeeds ("ok"), fails     *)
(* with a non-zero return code ("fail"), or raises ("raise").  A step of a *)
(* reset runs a query and then, at most, a delete; its course says which   *)
(* of the two goes wrong, if any.                                          *)

Courses ==
    {"ok", "query_fails", "query_raises", "delete_fails", "delete_raises"}

QueryOutcome(course) ==
    CASE course = "query_fails" -> "fail"
      [] course = "query_raises" -> "raise"
      [] OTHER -> "ok"

DeleteOutcome(course) ==
    CASE course = "delete_fails" -> "fail"
      [] course = "delete_raises" -> "raise"
      [] OTHER -> "ok"

ResetInterface == "eth0"

\* {"stdout": "", "stderr": "", "returncode": 0}
SuccessResult ==
    [stdout |-> <<>>, stderr |-> "", returncode |-> 0]

\* The exception a call raised, in place of a result.
Raised(exc) ==
    [raised |-> exc]

IsRaised(r) ==
    "raised" \in DOMAIN r

\* f"tc qdisc show dev {interface}"
ShowQdiscCommand(interface) ==
    <<"tc", "qdisc", "show", "dev", interface>>

\* f"tc filter show dev {interface} egress"
ShowFiltersCommand(interface) ==
    <<"tc", "filter", "show", "dev", interface, "egress">>

\* The three steps of a reset: what each queries, the marker it looks for
\* and the delete command it runs.
StepQuery(step, interface) ==
    IF step = "egress_filters" THEN ShowFiltersCommand(interface)
    ELSE ShowQdiscCommand(interface)

StepMarker(step) ==
    CASE step = "egress_filters" -> "filter"
      [] step = "clsact" -> "clsact"
      [] step = "root" -> "root"

StepDelete(step, interface) ==
    CASE step = "egress_filters" ->
             <<"tc", "filter", "del", "dev", interface, "egress">>
      [] step = "clsact" ->
             <<"tc", "qdisc", "del", "dev", interface, "clsact">>
      [] step = "root" ->
             <<"tc", "qdisc", "del", "dev", interface, "root">>

\* What `tc qdisc show dev` prints, in words, blanks and line ends.
QdiscListing(k) ==
    (IF k.root
     THEN <<"qdisc", " ", "taprio", " ", "100:", " ", "root", "\n">>
     ELSE <<>>)
    \o (IF k.clsact
        THEN <<"qdisc", " ", "clsact", " ", "ffff:", " ", "parent", " ",
               "ffff:fff1", "\n">>
        ELSE <<>>)

\* What `tc filter show dev ... egress` prints.
FilterListing(k) ==
    IF k.filters
    THEN <<"filter", " ", "protocol", " ", "ip", " ", "pref", " ", "49152",
           " ", "flower", " ", "chain", " ", "0", "\n">>
    ELSE <<>>

\* The kernel after a delete command that succeeded; deleting the clsact
\* qdisc takes the filters attached to it along.
KernelAfterDelete(k, cmd) ==
    CASE cmd[2] = "filter" -> [k EXCEPT !.filters = FALSE]
      [] cmd[6] = "clsact" -> [k EXCEPT !.filters = FALSE, !.clsact = FALSE]
      [] OTHER -> [k EXCEPT !.root = FALSE]

\* Whether the kernel holds what a delete command removes.
DeleteApplies(k, cmd) ==
    CASE cmd[2] = "filter" -> k.filters
      [] cmd[6] = "clsact" -> k.clsact
      [] OTHER -> k.root

\* Whether the kernel holds what an add or replace command builds on: an
\* etf qdisc hangs under the root qdisc, an egress filter under a clsact
\* qdisc, and a clsact qdisc is added where there is none.
AddApplies(k, cmd) ==
    CASE cmd[2] = "filter" -> k.clsact
      [] cmd[6] = "clsact" -> ~k.clsact
      [] cmd[7] = "root" -> TRUE
      [] OTHER -> k.root

\* The kernel after an add or replace command that succeeded.
KernelAfterAdd(k, cmd) ==
    CASE cmd[2] = "filter" -> [k EXCEPT !.filters = TRUE]
      [] cmd[6] = "clsact" -> [k EXCEPT !.clsact = TRUE]
      [] cmd[7] = "root" -> [k EXCEPT !.root = TRUE]
      [] OTHER -> k

\* run_tc_command: the result of the command and the kernel after it.  A
\* delete of what is not there fails, and so does an add to what is not
\* there.
run_tc_command(command, k, outcome) ==
    LET failed == [stdout |-> <<>>, stderr |-> "RTNETLINK answers: error",
                   returncode |-> 2]
    IN  IF outcome = "raise"
        THEN [result |-> Raised("OSError"), kernel |-> k]
        ELSE IF command[3] = "show"
        THEN [result |->
                  IF outcome = "fail" THEN failed
                  ELSE [stdout |-> Strip(IF command[2] = "filter"
                                         THEN FilterListing(k)
                                         ELSE QdiscListing(k)),
                        stderr |-> "", returncode |-> 0],
              kernel |-> k]
        ELSE IF command[3] \in {"add", "replace"}
        THEN IF outcome = "ok" /\ AddApplies(k, command)
             THEN [result |-> SuccessResult,
                   kernel |-> KernelAfterAdd(k, command)]
             ELSE [result |-> failed, kernel |-> k]
        ELSE IF outcome = "ok" /\ DeleteApplies(k, command)
        THEN [result |-> SuccessResult,
              kernel |-> KernelAfterDelete(k, command)]
        ELSE [result |-> failed, kernel |-> k]

HasMarkerAlways(stdout, marker) ==
    TRUE

\* `marker in output["stdout"]`: the markers are words of the listings.
HasMarker(stdout, marker) ==
    \E i \in 1..Len(stdout) : stdout[i] = marker

\* An entry of the log of a call: the step at work, the command run and
\* its result.
LogEntry(step, command, result) ==
    [step |-> step, command |-> command, result |-> result]

NoDelete ==
    [none |-> TRUE]

\* One step of a reset: the query, and the delete when the marker is
\* listed.  A reset carries from step to step the kernel, the log and the
\* courses of the steps to come.  The step yields the state after the step and the result of the
\* delete, or NoDelete when no delete was run.
ResetStep(step, interface, st) ==
    LET q == run_tc_command(StepQuery(step, interface), st.kernel,
                            QueryOutcome(Head(st.courses)))
        after_query ==
            [kernel |-> q.kernel,
             log |-> Append(st.log,
                            LogEntry(step, StepQuery(step, interface), q.result)),
             courses |-> Tail(st.courses)]
        d == run_tc_command(StepDelete(step, interface), q.kernel,
                            DeleteOutcome(Head(st.courses)))
        after_delete ==
            [kernel |-> d.kernel,
             log |-> Append(after_query.log,
                            LogEntry(step, StepDelete(step, interface), d.result)),
             courses |-> Tail(st.courses)]
    IN  IF IsRaised(q.result)
        THEN [st |-> after_query, raised |-> TRUE, deleted |-> NoDelete]
        ELSE IF ~HasMarker(q.result.stdout, StepMarker(step))
        THEN [st |-> after_query, raised |-> FALSE, deleted |-> NoDelete]
        ELSE [st |-> after_delete, raised |-> IsRaised(d.result),
              deleted |-> d.result]

\* reset_egress_filter_interface, reset_clsact_qdisc_interface and
\* reset_root_qdisc_interface: after the step, res is assigned the success
\* result whether or not a delete was run.
ResetHelper(step, interface, st) ==
    LET r == ResetStep(step, interface, st)
    IN  [st |-> r.st,
         result |-> IF r.raised THEN Raised("OSError") ELSE SuccessResult]

ResetQdiscStepsRootFirst ==
    <<"root", "clsact", "egress_filters">>

\* The steps of reset_qdisc_interface, in the order of its code.
ResetQdiscSteps ==
    <<"egress_filters", "clsact", "root">>

RECURSIVE ResetQdiscLoop(_, _, _, _)
\* The steps left of reset_qdisc_interface: each in a try block of its own,
\* an exception becoming the result of the step.
ResetQdiscLoop(steps, interface, st, results) ==
    IF steps = <<>> THEN [st |-> st, result |-> results]
    ELSE LET step == Head(steps)
             r == ResetStep(step, interface, st)
             step_result ==
                 IF r.raised
                 THEN [stdout |-> <<>>, stderr |-> "OSError", returncode |-> 1]
                 ELSE IF r.deleted = NoDelete THEN SuccessResult
                 ELSE r.deleted
         IN  ResetQdiscLoop(Tail(steps), interface, r.st,
                            [results EXCEPT ![step] = step_result])

reset_qdisc_interface(interface, st) ==
    ResetQdiscLoop(ResetQdiscSteps, interface, st,
                   [interface |-> interface,
                    egress_filters |-> SuccessResult,
                    clsact |-> SuccessResult,
                    root |-> SuccessResult])

\* The helpers TIMEConfigHub.reset_config calls, in the order of its code.
ResetConfigSteps ==
    <<"egress_filters", "clsact", "root">>

RECURSIVE ResetConfigLoop(_, _, _, _)
\* The helper calls left of reset_config; an exception of a helper ends
\* the calls.
ResetConfigLoop(steps, interface, st, results) ==
    IF steps = <<>> THEN [st |-> st, results |-> results, raised |-> FALSE]
    ELSE LET r == ResetHelper(Head(steps), interface, st)
         IN  IF IsRaised(r.result)
             THEN [st |-> r.st, results |-> results, raised |-> TRUE]
             ELSE ResetConfigLoop(Tail(steps), interface, r.st,
                                  Append(results, r.result))

\* TIMEConfigHub.reset_config: True when every helper returned return code
\* 0, TSNConfigError otherwise.
reset_config(interface, st) ==
    LET r == ResetConfigLoop(ResetConfigSteps, interface, st, <<>>)
        failed == \E i \in 1..Len(r.results) : r.results[i].returncode # 0
    IN  [st |-> r.st,
         result |-> IF r.raised \/ failed THEN Raised("TSNConfigError")
                    ELSE [returned |-> TRUE]]

---------------------------------------------------------------------------
(* SpecReset: reset operations are called one after the other on an        *)
(* interface in any kernel state.                                          *)

\* Egress filters hang under a clsact qdisc.
KernelStates ==
    {k \in [filters : BOOLEAN, clsact : BOOLEAN, root : BOOLEAN] :
        k.filters => k.clsact}

NoReset ==
    [op |-> "none", interface |-> ResetInterface, seq |-> 0]

InitReset ==
    /\ pc = "reset"
    /\ kernel \in KernelStates
    /\ reset_call = NoReset
    /\ reset_result = <<>>
    /\ tc_log = <<>>
    /\ IdleDocs
    /\ IdleGcl
    /\ IdleProto
    /\ IdleTalker
    /\ IdleFilter
    /\ IdleParser
    /\ IdleRead
    /\ IdleApply
    /\ IdleWatch
    /\ IdleShow

\* The frame of every reset action, and the record of the call.
ResetCalled(op, step, r) ==
    /\ reset_call' = [op |-> op, step |-> step, interface |-> ResetInterface,
                      before |-> kernel, seq |-> reset_call.seq + 1]
    /\ kernel' = r.st.kernel
    /\ tc_log' = r.st.log
    /\ reset_result' = r.result
    /\ UNCHANGED <<pc, docVars, gclVars, protoVars, talkerVars, filterVars,
                   parserVars, readVars,
                 applyVars, watchVars, showVars>>

StartOfCall(courses) ==
    [kernel |-> kernel, log |-> <<>>, courses |-> courses]

ResetEgressFilterInterface ==
    /\ reset_call.seq < MaxResets
    /\ \E course \in Courses :
          ResetCalled("reset_egress_filter_interface", "egress_filters",
              ResetHelper("egress_filters", ResetInterface,
                          StartOfCall(<<course>>)))

ResetClsactQdiscInterface ==
    /\ reset_call.seq < MaxResets
    /\ \E course \in Courses :
          ResetCalled("reset_clsact_qdisc_interface", "clsact",
              ResetHelper("clsact", ResetInterface, StartOfCall(<<course>>)))

ResetRootQdiscInterface ==
    /\ reset_call.seq < MaxResets
    /\ \E course \in Courses :
          ResetCalled("reset_root_qdisc_interface", "root",
              ResetHelper("root", ResetInterface, StartOfCall(<<course>>)))

ResetQdiscInterface ==
    /\ reset_call.seq < MaxResets
    /\ \E courses \in [1..3 -> Courses] :
          ResetCalled("reset_qdisc_interface", "all",
              reset_qdisc_interface(ResetInterface, StartOfCall(courses)))

ResetConfig ==
    /\ reset_call.seq < MaxResets
    /\ \E courses \in [1..3 -> Courses] :
          ResetCalled("reset_config", "all",
              reset_config(ResetInterface, StartOfCall(courses)))

NextReset ==
    \/ ResetEgressFilterInterface
    \/ ResetClsactQdiscInterface
    \/ ResetRootQdiscInterface
    \/ ResetQdiscInterface
    \/ ResetConfig

SpecReset ==
    InitReset /\ [][NextReset]_vars

---------------------------------------------------------------------------
(* Claims about the reset operations.                                      *)

ResetHelpers ==
    {"reset_egress_filter_interface", "reset_clsact_qdisc_interface",
     "reset_root_qdisc_interface"}

CombinedResets ==
    {"reset_qdisc_interface", "reset_config"}

IsDeleteCommand(command) ==
    command[3] = "del"

\* The positions in the log of the delete commands of a call.
DeletesOfCall ==
    {i \in 1..Len(tc_log) : IsDeleteCommand(tc_log[i].command)}

\* An interface with no qdisc and no filters.
KernelClean(k) ==
    ~k.filters /\ ~k.clsact /\ ~k.root

\* C11: each of the three reset operations first runs its query and, when
\* the query gives an output, runs its delete command iff its marker
\* ('filter', 'clsact', 'root') is in that output; on an interface with no
\* qdisc and no filters it runs no delete and returns return code 0, on
\* the first call and on every later one.
C11_ResetQueriesThenDeletes ==
    reset_call.op \in ResetHelpers =>
        LET step == reset_call.step
        IN  /\ Len(tc_log) >= 1
            /\ tc_log[1].command = StepQuery(step, ResetInterface)
            /\ DeletesOfCall \subseteq {2}
            /\ \A i \in DeletesOfCall :
                   tc_log[i].command = StepDelete(step, ResetInterface)
            /\ ~IsRaised(tc_log[1].result) =>
                   (DeletesOfCall # {} <=>
                       \E j \in 1..Len(tc_log[1].result.stdout) :
                           tc_log[1].result.stdout[j] = StepMarker(step))
            /\ IsRaised(tc_log[1].result) => DeletesOfCall = {}
            /\ (KernelClean(reset_call.before) /\ ~IsRaised(tc_log[1].result)) =>
                   /\ DeletesOfCall = {}
                   /\ ~IsRaised(reset_result)
                   /\ reset_result.returncode = 0
                   /\ kernel = reset_call.before

\* A second reset of the root qdisc, on an interface the first reset has
\* left with nothing to delete.
C11_Witness ==
    /\ reset_call.op = "reset_root_qdisc_interface"
    /\ reset_call.seq = 2
    /\ KernelClean(reset_call.before)
    /\ Len(tc_log) = 1
    /\ tc_log[1].result = SuccessResult
    /\ reset_result = SuccessResult

StepRank(step) ==
    CASE step = "egress_filters" -> 1
      [] step = "clsact" -> 2
      [] step = "root" -> 3

\* C12: a combined reset (reset_qdisc_interface, reset_config) runs its
\* steps in the order egress filters, clsact, root: every command of the
\* filter step comes before every command of the clsact step, and those
\* before every command of the root step, each delete being the one of its
\* step; in reset_qdisc_interface all three steps run their query whatever
\* fails or raises before.
C12_CombinedResetOrder ==
    reset_call.op \in CombinedResets =>
        /\ \A i, j \in 1..Len(tc_log) :
               i < j => StepRank(tc_log[i].step) <= StepRank(tc_log[j].step)
        /\ \A i \in 1..Len(tc_log) :
               LET e == tc_log[i]
               IN  IF IsDeleteCommand(e.command)
                   THEN /\ e.command = StepDelete(e.step, ResetInterface)
                        /\ i > 1
                        /\ tc_log[i - 1].command = StepQuery(e.step, ResetInterface)
                        /\ tc_log[i - 1].step = e.step
                   ELSE e.command = StepQuery(e.step, ResetInterface)
        /\ \A i \in DeletesOfCall :
               /\ tc_log[i].command[6] = "clsact" =>
                      \E q \in 1..(i - 1) : tc_log[q].step = "egress_filters"
               /\ tc_log[i].command[6] = "root" =>
                      \E q \in 1..(i - 1) : tc_log[q].step = "clsact"
        /\ reset_call.op = "reset_qdisc_interface" =>
               /\ \A step \in {"egress_filters", "clsact", "root"} :
                      \E i \in 1..Len(tc_log) :
                          /\ tc_log[i].step = step
                          /\ tc_log[i].command = StepQuery(step, ResetInterface)
               /\ ~IsRaised(reset_result)

\* reset_qdisc_interface on an interface with filters, clsact and root
\* qdisc, whose filter query raises and whose clsact delete fails: the
\* root qdisc is still deleted.
C12_Witness ==
    /\ reset_call.op = "reset_qdisc_interface"
    /\ reset_call.before = [filters |-> TRUE, clsact |-> TRUE, root |-> TRUE]
    /\ Len(tc_log) = 5
    /\ IsRaised(tc_log[1].result)
    /\ tc_log[3].result.returncode # 0
    /\ tc_log[5].command = StepDelete("root", ResetInterface)
    /\ tc_log[5].result = SuccessResult
    /\ reset_result.egress_filters.returncode = 1
    /\ reset_result.root.returncode = 0
    /\ ~kernel.root

\* The delete commands of a call that returned a non-zero return code.
FailedDeletes ==
    {i \in DeletesOfCall :
        ~IsRaised(tc_log[i].result) /\ tc_log[i].result.returncode # 0}

\* C13: when the delete command of a reset helper returns a non-zero
\* return code, the helper returns the result of that command; and
\* reset_config returns True only if every delete it ran returned 0,
\* raising TSNConfigError otherwise.
C13_DeleteFailureReported ==
    /\ reset_call.op \in ResetHelpers =>
           \A i \in FailedDeletes : reset_result = tc_log[i].result
    /\ reset_call.op = "reset_config" =>
           /\ reset_result = [returned |-> TRUE] => FailedDeletes = {}
           /\ FailedDeletes # {} => reset_result = Raised("TSNConfigError")

---------------------------------------------------------------------------
(* Claims about what command synthesis touches.                            *)

\* C20: command synthesis performs no I/O: a call of a filter generator
\* only returns commands, it runs no external command or query (no
\* `tc qdisc show dev` is run on its behalf).
C20_SynthesisRunsNoQuery ==
    GeneratorReturned => clsact_checks = <<>>

---------------------------------------------------------------------------
(* xml_parser.py and yaml_parser.py: the format parsers.                   *)
(*                                                                         *)
(* An XML file is modelled by what ElementTree makes of its wrapped text:  *)
(* whether it is well formed and, if so, the child elements of the         *)
(* synthetic root in document order.  An element is a record of its tag,   *)
(* its attributes (<<name, value>> pairs), its children and its text; a    *)
(* tag with a namespace is chunked as <<"{", uri, "}", local>>, and an     *)
(* element without text has the text <<>>.  A YAML file is modelled by     *)
(* what safe_load_all yields: whether its text loads and, if so, the       *)
(* loaded documents in order, a null document being PyNone.                *)

Element(tag, attrib, children, text) ==
    [tag |-> tag, attrib |-> attrib, children |-> children, text |-> text]

XmlContent(wellformed, elements) ==
    [format |-> "xml", wellformed |-> wellformed, elements |-> elements]

YamlContent(loads, docs) ==
    [format |-> "yaml", wellformed |-> loads, docs |-> docs]

\* A path no file exists at.
NoFile == [format |-> "missing"]

\* `tag.split("}")[-1] if "}" in tag else tag`.
_strip_namespace(tag) ==
    LET closing == {i \in 1..Len(tag) : tag[i] = "}"}
    IN  IF closing = {} THEN tag
        ELSE LET last == CHOOSE i \in closing : \A j \in closing : j <= i
             IN  SubSeq(tag, last + 1, Len(tag))

\* The `if child_tag in node` statement of _element_to_dict: a repeated
\* tag turns the value into a list.
MergeChild(node, child_tag, child_value) ==
    LET idx == {i \in 1..Len(node) : node[i][1] = child_tag}
    IN  IF idx = {} THEN Append(node, <<child_tag, child_value>>)
        ELSE LET i == CHOOSE j \in idx : TRUE
                 old == node[i][2]
                 merged == IF old.t = "list"
                           THEN PyList(Append(old.items, child_value))
                           ELSE PyList(<<old, child_value>>)
             IN  [node EXCEPT ![i] = <<child_tag, merged>>]

RECURSIVE _element_to_dict(_), MergeChildren(_, _)
\* The `for child in children` loop of _element_to_dict.
MergeChildren(node, children) ==
    IF children = <<>> THEN node
    ELSE LET child_dict == _element_to_dict(Head(children))
         IN  MergeChildren(MergeChild(node, child_dict[1], child_dict[2]),
                           Tail(children))

\* The single item <<tag, value>> of the dict an element converts to.
_element_to_dict(element) ==
    LET tag == Flat(_strip_namespace(element.tag))
        attributes == [i \in 1..Len(element.attrib) |->
                          <<"@" \o element.attrib[i][1],
                            PyStr(<<element.attrib[i][2]>>)>>]
        children == element.children
        merged == MergeChildren(attributes, children)
        text == Strip(element.text)
    IN  IF Flat(text) # "" /\ children = <<>> /\ element.attrib = <<>>
        THEN <<tag, PyStr(text)>>
        ELSE LET node == IF Flat(text) # ""
                         THEN Append(merged, <<"#text", PyStr(text)>>)
                         ELSE merged
             IN  IF node # <<>> THEN <<tag, PyDict(node)>>
                 ELSE <<tag, PyNone>>

\* The value a call returned, where the call may raise instead.
Returned(value) ==
    [returned |-> value]

\* XMLParser.parse on the content of a file: the documents it returns, or
\* the exception it raises.
XMLParser_parse(content) ==
    IF content.format = "missing" THEN Raised("FileNotFoundError")
    ELSE IF ~content.wellformed THEN Raised("ParseError")
    ELSE Returned([i \in 1..Len(content.elements) |->
                      PyDict(<<_element_to_dict(content.elements[i])>>)])

\* A test by truthiness, which also drops empty documents.
KeepYamlDocumentTruthy(doc) ==
    Truthy(doc)

\* `if doc is not None` of YAMLParser.parse.
KeepYamlDocument(doc) ==
    doc # PyNone

\* YAMLParser.parse on the content of a file.
YAMLParser_parse(content) ==
    IF content.format = "missing" THEN Raised("FileNotFoundError")
    ELSE IF ~content.wellformed THEN Raised("YAMLError")
    ELSE Returned(SelectSeq(content.docs, KeepYamlDocument))

---------------------------------------------------------------------------
(* The marker scan of both format parsers.                                 *)
(*                                                                         *)
(* Wherever the token occurs in a text of the model, in whatever spelling, *)
(* it is a chunk of its own, so that `token in text` is the occurrence of  *)
(* that chunk.                                                             *)

Token == "chronos-domain"

TokenSpellings == {"chronos-domain", "Chronos-Domain", "CHRONOS-DOMAIN"}

UpperCase == <<"A", "B", "C", "D", "E", "F", "G", "H", "I", "J", "K", "L", "M",
               "N", "O", "P", "Q", "R", "S", "T", "U", "V", "W", "X", "Y", "Z">>

LowerCase == <<"a", "b", "c", "d", "e", "f", "g", "h", "i", "j", "k", "l", "m",
               "n", "o", "p", "q", "r", "s", "t", "u", "v", "w", "x", "y", "z">>

\* str.lower() on one chunk: a letter, a spelling of the token, or text
\* without upper-case letters.
LowerChunk(c) ==
    IF c \in TokenSpellings THEN Token
    ELSE IF \E i \in 1..26 : UpperCase[i] = c
    THEN LowerCase[CHOOSE i \in 1..26 : UpperCase[i] = c]
    ELSE c

\* A lower() that leaves the case alone.
LowerKeepCase(text) ==
    text

\* str.lower().
Lower(text) ==
    [i \in 1..Len(text) |-> LowerChunk(text[i])]

\* `"chronos-domain" in text`.
TokenIn(text) ==
    \E i \in 1..Len(text) : text[i] = Token

RECURSIVE Repr(_), ReprItems(_), ReprList(_)
\* repr(x), chunked.
Repr(x) ==
    CASE x.t = "none" -> <<"None">>
      [] x.t = "str"  -> <<"'">> \o x.s \o <<"'">>
      [] x.t = "int"  -> DecChunks(x.n)
      [] x.t = "dict" -> <<"{">> \o ReprItems(x.kv) \o <<"}">>
      [] x.t = "list" -> <<"[">> \o ReprList(x.items) \o <<"]">>

ReprItems(kv) ==
    IF kv = <<>> THEN <<>>
    ELSE <<"'", Head(kv)[1], "'", ": ">> \o Repr(Head(kv)[2])
         \o (IF Tail(kv) = <<>> THEN <<>> ELSE <<", ">> \o ReprItems(Tail(kv)))

ReprList(items) ==
    IF items = <<>> THEN <<>>
    ELSE Repr(Head(items))
         \o (IF Tail(items) = <<>> THEN <<>> ELSE <<", ">> \o ReprList(Tail(items)))

\* str(x), chunked.
Str(x) ==
    IF x.t = "str" THEN x.s ELSE Repr(x)

RECURSIVE _contains_chronos(_)
\* Recursive search for the token: in the keys and the str() of the values
\* of a dict, and in the items of a list that are dicts or lists.
_contains_chronos(node) ==
    IF node.t = "dict"
    THEN \E i \in 1..Len(node.kv) :
            LET k == node.kv[i][1]
                v == node.kv[i][2]
            IN  \/ TokenIn(Lower(<<k>>))
                \/ TokenIn(Lower(Str(v)))
                \/ _contains_chronos(v)
    ELSE IF node.t = "list"
    THEN \E i \in 1..Len(node.items) : _contains_chronos(node.items[i])
    ELSE FALSE

\* XMLParser.has_chronos_domain and YAMLParser.has_chronos_domain, on the
\* documents of the parser.
has_chronos_domain(docs) ==
    \E i \in 1..Len(docs) : _contains_chronos(docs[i])

---------------------------------------------------------------------------
(* universal_parser.py.  The state of a UniversalParser is the key of its  *)
(* current parser ("None" before the first dispatch), its documents and    *)
(* the documents attribute of each of its three format parsers.  A path    *)
(* is chunked by character.                                                *)

ParserKeys == {".xml", ".yaml", ".yml"}

\* os.path.splitext: the extension starts at the last dot of the last
\* path component, unless only dots come before it in that component.
os_path_splitext(p) ==
    LET seps == {i \in 1..Len(p) : p[i] = "/"}
        dots == {i \in 1..Len(p) : p[i] = "."}
        sepIndex == IF seps = {} THEN 0
                    ELSE CHOOSE i \in seps : \A j \in seps : j <= i
        dotIndex == IF dots = {} THEN 0
                    ELSE CHOOSE i \in dots : \A j \in dots : j <= i
    IN  IF dotIndex > sepIndex
           /\ \E j \in (sepIndex + 1)..(dotIndex - 1) : p[j] # "."
        THEN <<SubSeq(p, 1, dotIndex - 1), SubSeq(p, dotIndex, Len(p))>>
        ELSE <<p, <<>>>>

\* The content open(file_path) reads.
ReadFile(fs, file_path) ==
    IF file_path \in DOMAIN fs THEN fs[file_path] ELSE NoFile

\* parser.parse(file_path) of the format parser registered under a key.
FormatParser_parse(key, content) ==
    IF key = ".xml" THEN XMLParser_parse(content) ELSE YAMLParser_parse(content)

NewUniversalParser ==
    [current_parser |-> "None", documents |-> <<>>,
     parser_documents |-> [k \in ParserKeys |-> <<>>]]

\* UniversalParser.parse: the state it leaves, what it returns or raises,
\* and whether it opened the file.  A format parser empties its documents
\* before it opens the file.
UniversalParser_parse(up, fs, file_path) ==
    LET ext == Flat(os_path_splitext(Lower(file_path))[2])
    IN  IF ext \notin ParserKeys
        THEN [up |-> up, result |-> Raised("ValueError"), opened |-> FALSE]
        ELSE LET r == FormatParser_parse(ext, ReadFile(fs, file_path))
             IN  IF IsRaised(r)
                 THEN [up |-> [up EXCEPT !.current_parser = ext,
                                         !.parser_documents[ext] = <<>>],
                       result |-> r, opened |-> TRUE]
                 ELSE [up |-> [up EXCEPT !.current_parser = ext,
                                         !.documents = r.returned,
                                         !.parser_documents[ext] = r.returned],
                       result |-> r, opened |-> TRUE]

\* A refresh that hands back the cached documents.
RefreshFromCache(up, fs, file_path) ==
    [up |-> up, result |-> Returned(up.documents), opened |-> FALSE]

\* UniversalParser.refresh.
UniversalParser_refresh(up, fs, file_path) ==
    UniversalParser_parse(up, fs, file_path)

\* UniversalParser.has_chronos_domain.
UniversalParser_has_chronos_domain(up) ==
    IF up.current_parser = "None" THEN FALSE
    ELSE has_chronos_domain(up.parser_documents[up.current_parser])

HelperWithoutScan(up) ==
    [engine |-> up.documents]

\* UniversalParser.get_dictionary_helper: the documents the engine is
\* bound to, or PyNone.
get_dictionary_helper(up) ==
    IF UniversalParser_has_chronos_domain(up)
    THEN [engine |-> up.documents]
    ELSE PyNone

---------------------------------------------------------------------------
(* A UniversalParser at work on a directory of configuration files.        *)

MaxCalls == 3       \* parse and refresh calls, and changes of a file

Leaf(tag, text) ==
    Element(<<tag>>, <<>>, <<>>, text)

\* <tsn:Chronos-Domain xmlns:tsn="urn:tsn"><name>d1</name></tsn:Chronos-Domain>
MarkedElement ==
    Element(<<"{", "urn:tsn", "}", "Chronos-Domain">>, <<>>,
            <<Leaf("name", <<"d1">>)>>, <<>>)

\* <interfaces><interface><name> eth0 </name></interface></interfaces>
PlainElement ==
    Element(<<"interfaces">>, <<>>,
            <<Element(<<"interface">>, <<>>,
                      <<Leaf("name", <<" ", "eth0", " ">>)>>, <<"\n">>)>>,
            <<"\n">>)

\* <streams count="2"/>
OtherElement ==
    Element(<<"streams">>, << <<"count", "2">> >>, <<>>, <<>>)

XmlMarked == XmlContent(TRUE, <<PlainElement, MarkedElement>>)
XmlPlain == XmlContent(TRUE, <<PlainElement>>)
XmlOther == XmlContent(TRUE, <<OtherElement, PlainElement>>)
XmlMalformed == XmlContent(FALSE, <<>>)

YamlMarked ==
    YamlContent(TRUE, <<PyDict(<< <<"domain",
                                    PyStr(<<"tsn-", "CHRONOS-DOMAIN">>)>> >>)>>)

YamlPlain ==
    YamlContent(TRUE, <<PyDict(<< <<"interfaces", PyList(<<>>)>> >>), PyNone,
                        PyDict(<< <<"streams", PyInt(2)>> >>)>>)

YamlMalformed == YamlContent(FALSE, <<>>)

PathAXml == <<"a", ".", "x", "m", "l">>
PathBXml == <<"c", "f", "g", "/", "B", ".", "X", "M", "L">>
PathGoneXml == <<"g", "o", "n", "e", ".", "x", "m", "l">>
PathCYaml == <<"c", ".", "Y", "a", "m", "l">>
PathDYml == <<"d", ".", "t", "s", "n", ".", "y", "m", "l">>
PathBadYml == <<"b", "a", "d", ".", "Y", "M", "L">>
PathJson == <<"e", ".", "j", "s", "o", "n">>
PathNoExt == <<"c", "o", "n", "f", "i", "g">>
PathHidden == <<".", "x", "m", "l">>
PathBackup == <<"a", ".", "x", "m", "l", ".", "b", "a", "k">>
PathInDir == <<"d", ".", "x", "m", "l", "/", "c", "f", "g">>

\* The paths parse and refresh are called with.
Paths ==
    {PathAXml, PathBXml, PathGoneXml, PathCYaml, PathDYml, PathBadYml,
     PathJson, PathNoExt, PathHidden, PathBackup, PathInDir}

\* The files on disk at the start: every path but PathGoneXml exists.
InitialFiles ==
    (PathAXml :> XmlMarked) @@ (PathBXml :> XmlOther)
    @@ (PathCYaml :> YamlMarked) @@ (PathDYml :> YamlPlain)
    @@ (PathBadYml :> YamlMalformed)
    @@ (PathJson :> XmlPlain) @@ (PathNoExt :> XmlPlain)
    @@ (PathHidden :> XmlPlain) @@ (PathBackup :> XmlPlain)
    @@ (PathInDir :> XmlPlain)

\* The contents an editor gives PathAXml.
Editions == {XmlMarked, XmlPlain, XmlMalformed}

NotParsed == [parsed |-> FALSE]

NoParse ==
    [op |-> "none", seq |-> 0]

NoHelper ==
    [engine |-> <<>>, has_chronos_domain |-> <<>>]

\* The UniversalParser the variables hold.
TheParser ==
    [current_parser |-> current_parser, documents |-> universal_documents,
     parser_documents |-> parser_documents]

InitParser ==
    /\ pc = "parser"
    /\ files = InitialFiles
    /\ current_parser = NewUniversalParser.current_parser
    /\ universal_documents = NewUniversalParser.documents
    /\ parser_documents = NewUniversalParser.parser_documents
    /\ parse_call = NoParse
    /\ last_parsed = [p \in Paths |-> NotParsed]
    /\ helper = NoHelper
    /\ IdleDocs
    /\ IdleGcl
    /\ IdleProto
    /\ IdleTalker
    /\ IdleFilter
    /\ IdleReset
    /\ IdleRead
    /\ IdleApply
    /\ IdleWatch
    /\ IdleShow

\* The effect of a parse or refresh call, and the record of the call.
ParserCalled(op, file_path, r) ==
    /\ current_parser' = r.up.current_parser
    /\ universal_documents' = r.up.documents
    /\ parser_documents' = r.up.parser_documents
    /\ parse_call' = [op |-> op, path |-> file_path, result |-> r.result,
                      opened |-> r.opened,
                      before |-> [current_parser |-> current_parser,
                                  documents |-> universal_documents],
                      expected |-> last_parsed[file_path],
                      seq |-> parse_call.seq + 1]
    /\ helper' = NoHelper
    /\ UNCHANGED <<pc, files, docVars, gclVars, protoVars, talkerVars,
                   filterVars, resetVars, readVars,
                 applyVars, watchVars, showVars>>

Parse ==
    /\ parse_call.seq < MaxCalls
    /\ \E file_path \in Paths :
          \E r \in {UniversalParser_parse(TheParser, files, file_path)} :
              /\ ParserCalled("parse", file_path, r)
              /\ last_parsed' =
                     [last_parsed EXCEPT ![file_path] =
                         IF IsRaised(r.result) THEN NotParsed
                         ELSE [parsed |-> TRUE, documents |-> r.result.returned]]

Refresh ==
    /\ parse_call.seq < MaxCalls
    /\ \E file_path \in Paths :
          \E r \in {UniversalParser_refresh(TheParser, files, file_path)} :
              /\ ParserCalled("refresh", file_path, r)
              /\ UNCHANGED last_parsed

\* Somebody rewrites a.xml.
ModifyFile ==
    /\ parse_call.seq < MaxCalls
    /\ \E content \in Editions \ {files[PathAXml]} :
          files' = [files EXCEPT ![PathAXml] = content]
    /\ last_parsed' = [last_parsed EXCEPT ![PathAXml] = NotParsed]
    /\ parse_call' = [op |-> "modify", path |-> PathAXml,
                      seq |-> parse_call.seq + 1]
    /\ helper' = NoHelper
    /\ UNCHANGED <<pc, current_parser, universal_documents, parser_documents,
                   docVars, gclVars, protoVars, talkerVars, filterVars,
                   resetVars, readVars,
                 applyVars, watchVars, showVars>>

GetDictionaryHelper ==
    /\ helper.engine = <<>>
    /\ helper' = [helper EXCEPT !.engine = <<get_dictionary_helper(TheParser)>>]
    /\ UNCHANGED <<pc, files, current_parser, universal_documents,
                   parser_documents, parse_call, last_parsed, docVars, gclVars,
                   protoVars, talkerVars, filterVars, resetVars, readVars,
                 applyVars, watchVars, showVars>>

HasChronosDomain ==
    /\ helper.has_chronos_domain = <<>>
    /\ helper' = [helper EXCEPT !.has_chronos_domain =
                                   <<UniversalParser_has_chronos_domain(TheParser)>>]
    /\ UNCHANGED <<pc, files, current_parser, universal_documents,
                   parser_documents, parse_call, last_parsed, docVars, gclVars,
                   protoVars, talkerVars, filterVars, resetVars, readVars,
                 applyVars, watchVars, showVars>>

NextParser ==
    \/ Parse
    \/ Refresh
    \/ ModifyFile
    \/ GetDictionaryHelper
    \/ HasChronosDomain

SpecParser ==
    InitParser /\ [][NextParser]_vars

---------------------------------------------------------------------------
(* Claims about the UniversalParser.                                       *)

\* The format each path of the model names by its extension, as a reader
\* takes it: the part of the file name from its last dot on, whatever the
\* case of its letters; a name that only starts with a dot has none.
PathFormat ==
    (PathAXml :> "xml") @@ (PathBXml :> "xml") @@ (PathGoneXml :> "xml")
    @@ (PathCYaml :> "yaml") @@ (PathDYml :> "yaml") @@ (PathBadYml :> "yaml")
    @@ (PathJson :> "unsupported") @@ (PathNoExt :> "unsupported")
    @@ (PathHidden :> "unsupported") @@ (PathBackup :> "unsupported")
    @@ (PathInDir :> "unsupported")

RECURSIVE Occurs(_)
\* The token occurs in a mapping key or a scalar value at some depth of a
\* value.
Occurs(node) ==
    CASE node.t = "dict" ->
             \E i \in 1..Len(node.kv) :
                \/ TokenIn(Lower(<<node.kv[i][1]>>))
                \/ Occurs(node.kv[i][2])
      [] node.t = "list" -> \E i \in 1..Len(node.items) : Occurs(node.items[i])
      [] node.t = "str"  -> TokenIn(Lower(node.s))
      [] OTHER -> FALSE

MarkerOccurs(docs) ==
    \E i \in 1..Len(docs) : Occurs(docs[i])

\* C14: after any sequence of parse and refresh calls, raising ones
\* included, get_dictionary_helper returns an engine if and only if the
\* marker occurs in UniversalParser.documents, the engine is bound to
\* exactly these documents, and has_chronos_domain gives the same truth
\* value.
C14_HelperFollowsCache ==
    /\ helper.engine # <<>> =>
          LET returned == helper.engine[1]
          IN  /\ (returned # PyNone) <=> MarkerOccurs(universal_documents)
              /\ returned # PyNone => returned.engine = universal_documents
    /\ helper.has_chronos_domain # <<>> =>
          (helper.has_chronos_domain[1] <=> MarkerOccurs(universal_documents))

C17_RefreshReparses ==
    (parse_call.op = "refresh" /\ parse_call.expected.parsed) =>
        /\ parse_call.result = Returned(parse_call.expected.documents)
        /\ universal_documents = parse_call.expected.documents

\* A refresh of a parsed, unchanged file after another file was parsed.
C17_Witness ==
    /\ parse_call.op = "refresh"
    /\ parse_call.expected.parsed
    /\ parse_call.expected.documents # <<>>
    /\ parse_call.before.documents # parse_call.expected.documents
    /\ universal_documents = parse_call.expected.documents

---------------------------------------------------------------------------
(* GE_Dictionary on any parsed documents: where an extraction raises.      *)
(* x.get(...) raises AttributeError unless x is a dict; mac.replace(...)   *)
(* raises it unless mac is a str; `key in x` raises TypeError on None and  *)
(* on a number.                                                            *)

\* `x.get(...)` raises.
GetRaises(x) ==
    x.t # "dict"

\* `mac.replace("-", ":") if mac else None` raises.
ReplaceRaises(mac) ==
    Truthy(mac) /\ mac.t # "str"

\* The blocks of a config-list entry the code calls .get on.
ConfigBlocks ==
    {"ieee802-mac-addresses", "ieee802-vlan-tag", "ipv4-tuple", "time-aware"}

\* The body of `for cfg in cfg_lists` raises: cfg is no container, or a
\* block of it is no dict, or - cfg being a str or a list in which a key
\* occurs - cfg[key] or cfg.get(key) raises.
ConfigRaises(cfg) ==
    CASE cfg.t \in {"none", "int"} -> TRUE
      [] cfg.t = "dict" ->
             \/ \E key \in ConfigBlocks :
                   /\ HasKey(cfg, key)
                   /\ LET block == DictGet(cfg, key, PyNone)
                      IN  \/ GetRaises(block)
                          \/ /\ key = "ieee802-mac-addresses"
                             /\ ReplaceRaises(DictGet(block,
                                    "destination-mac-address", PyNone))
      [] cfg.t = "str" ->
             \E i \in 1..Len(cfg.s) :
                cfg.s[i] \in ConfigBlocks \cup {"time-aware-offset"}
      [] cfg.t = "list" ->
             \E i \in 1..Len(cfg.items), key \in ConfigBlocks \cup {"time-aware-offset"} :
                cfg.items[i] = PyStr(<<key>>)

\* The body of `for talker in talkers` raises.
TalkerRaises(talker) ==
    \/ GetRaises(talker)
    \/ LET end_iface == DictGet(talker, "end-station-interfaces", PyDict(<<>>))
       IN  \/ GetRaises(end_iface)
           \/ ReplaceRaises(DictGet(end_iface, "mac-address", PyNone))
    \/ LET iface_cfg == DictGet(talker, "interface-configuration", PyDict(<<>>))
       IN  \/ GetRaises(iface_cfg)
           \/ LET iface_list == DictGet(iface_cfg, "interface-list", PyDict(<<>>))
              IN  \/ GetRaises(iface_list)
                  \/ ReplaceRaises(DictGet(iface_list, "mac-address", PyNone))
                  \/ LET cfg_lists == AsList(DictGet(iface_list, "config-list",
                                                     PyList(<<>>)))
                     IN  \E i \in 1..Len(cfg_lists) : ConfigRaises(cfg_lists[i])

\* The body of `for stream in streams` raises; a stream id that is a dict
\* or a list cannot be a key of the result.
StreamRaises(stream) ==
    \/ GetRaises(stream)
    \/ LET stream_id == DictGet(stream, "stream-id", PyNone)
           talkers == AsList(DictGet(stream, "talker", PyList(<<>>)))
       IN  /\ Truthy(stream_id)
           /\ \E i \in 1..Len(talkers) :
                 \/ TalkerRaises(talkers[i])
                 \/ stream_id.t \in {"dict", "list"}

CucRaises(cuc) ==
    \/ GetRaises(cuc)
    \/ LET streams == AsList(DictGet(cuc, "stream", PyList(<<>>)))
       IN  \E i \in 1..Len(streams) : StreamRaises(streams[i])

DomainRaises(domain) ==
    \/ GetRaises(domain)
    \/ LET cucs == AsList(DictGet(domain, "cuc", PyList(<<>>)))
       IN  \E i \in 1..Len(cucs) : CucRaises(cucs[i])

\* The body of `for doc in self.documents` of get_all_talker_stream_info
\* raises.
DocumentTalkersRaise(doc) ==
    \/ GetRaises(doc)
    \/ LET cnc == DictGet(doc, "cnc-config", PyDict(<<>>))
       IN  \/ GetRaises(cnc)
           \/ LET domains == AsList(DictGet(cnc, "domain", PyList(<<>>)))
              IN  \E i \in 1..Len(domains) : DomainRaises(domains[i])

\* The body of `for doc in self.documents` of get_interface_names raises:
\* the section found is no dict, or an interface of its list is none.
DocumentNamesRaise(doc) ==
    LET interfaces_section == _find_key(doc, "interfaces")
    IN  /\ Truthy(interfaces_section)
        /\ \/ GetRaises(interfaces_section)
           \/ LET interface_list == DictGet(interfaces_section, "interface", PyNone)
              IN  /\ Truthy(interface_list)
                  /\ \E i \in 1..Len(AsList(interface_list)) :
                        GetRaises(AsList(interface_list)[i])

\* The body of `for iface in interface_list` of get_gate_control_entries
\* raises: the admin-control-list found is no dict.
InterfaceGateEntriesRaise(iface) ==
    LET gate_table == _find_key(iface, "gate-parameter-table")
    IN  /\ Truthy(gate_table)
        /\ LET admin_list == _find_key(gate_table, "admin-control-list")
           IN  Truthy(admin_list) /\ GetRaises(admin_list)

DocumentGateEntriesRaise(doc) ==
    LET interfaces_section == _find_key(doc, "interfaces")
    IN  /\ Truthy(interfaces_section)
        /\ \/ GetRaises(interfaces_section)
           \/ LET interface_list == DictGet(interfaces_section, "interface", PyNone)
              IN  /\ Truthy(interface_list)
                  /\ \E i \in 1..Len(AsList(interface_list)) :
                        InterfaceGateEntriesRaise(AsList(interface_list)[i])

\* What a call of each extraction gives: the value returned, or the
\* exception raised.
GE_get_interface_names(docs) ==
    IF \E i \in 1..Len(docs) : DocumentNamesRaise(docs[i])
    THEN Raised("AttributeError")
    ELSE Returned(get_interface_names(docs))

GE_get_gate_control_entries(docs) ==
    IF \E i \in 1..Len(docs) : DocumentGateEntriesRaise(docs[i])
    THEN Raised("AttributeError")
    ELSE Returned(get_gate_control_entries(docs))

\* Here the exception is an AttributeError or, from `in` and from a
\* subscript, a TypeError.
GE_get_all_talker_stream_info(docs) ==
    IF \E i \in 1..Len(docs) : DocumentTalkersRaise(docs[i])
    THEN Raised("AttributeError or TypeError")
    ELSE Returned(get_all_talker_stream_info(docs))

---------------------------------------------------------------------------
(* SpecRead: one source is parsed by its format parser; the documents are  *)
(* scanned for the marker and handed to the extraction operations.         *)

MaxUnits == 2       \* top-level elements, or YAML documents, per source

Node(tag, children) ==
    Element(<<tag>>, <<>>, children, <<"\n", " ">>)

\* <interfaces/>
EmptyInterfaces ==
    Leaf("interfaces", <<>>)

\* <interfaces><interface/><interface><name>eth1</name></interface></interfaces>
InterfacesWithEmptyInterface ==
    Node("interfaces", <<Leaf("interface", <<>>),
                         Node("interface", <<Leaf("name", <<"eth1">>)>>)>>)

GateEntry(state, interval) ==
    Node("gate-control-entry",
         <<Leaf("operation-name", <<"sched:set-gate-states">>),
           Leaf("gate-states-value", <<state>>),
           Leaf("time-interval-value", <<interval>>)>>)

\* An interface with a name, without a gate table, and two interfaces of
\* which the first has a gate table of two entries and the second an empty
\* admin-control-list.
GatedInterfaces ==
    Node("interfaces",
         <<Node("interface",
                <<Leaf("name", <<"eth0">>),
                  Node("gate-parameter-table",
                       <<Node("admin-control-list",
                              <<GateEntry("1", "500"), GateEntry("2", "250")>>)>>)>>),
           Node("interface",
                <<Leaf("name", <<>>),
                  Node("gate-parameter-table",
                       <<Leaf("admin-control-list", <<>>)>>)>>)>>)

Stream(stream_id, talkers) ==
    Node("stream", <<Leaf("stream-id", <<stream_id>>)>> \o talkers)

CncConfig(streams) ==
    Node("cnc-config", <<Node("domain", <<Node("cuc", streams)>>)>>)

InterfaceList(name, configs) ==
    Node("interface-configuration",
         <<Node("interface-list",
                <<Leaf("interface-name", <<name>>)>> \o configs)>>)

VlanConfig ==
    Node("config-list",
         <<Node("ieee802-vlan-tag",
                <<Leaf("vlan-id", <<"100">>),
                  Leaf("priority-code-point", <<"3">>)>>)>>)

\* A talker with every block, the mac address written with hyphens.
FullTalker ==
    Node("talker",
         <<Node("end-station-interfaces",
                <<Leaf("mac-address", <<"aa", "-", "bb">>)>>),
           InterfaceList("eth0", <<VlanConfig>>)>>)

\* A talker whose optional blocks are absent altogether.
SparseTalker ==
    Node("talker", <<InterfaceList("eth1", <<>>)>>)

\* <talker><end-station-interfaces/> ... </talker>
TalkerWithEmptyEndStation ==
    Node("talker",
         <<Leaf("end-station-interfaces", <<>>),
           InterfaceList("eth0", <<VlanConfig>>)>>)

\* A talker whose config-list entry holds <ieee802-vlan-tag/>.
TalkerWithEmptyVlanTag ==
    Node("talker",
         <<InterfaceList("eth0",
               <<Node("config-list", <<Leaf("ieee802-vlan-tag", <<>>)>>)>>)>>)

\* The top-level elements of the XML sources.
RootElements ==
    {PlainElement, MarkedElement, OtherElement, EmptyInterfaces,
     InterfacesWithEmptyInterface, GatedInterfaces,
     CncConfig(<<Stream("s1", <<FullTalker>>), Stream("s2", <<SparseTalker>>)>>),
     CncConfig(<<Stream("s1", <<TalkerWithEmptyEndStation>>),
                 Stream("s2", <<FullTalker>>)>>),
     CncConfig(<<Stream("s1", <<TalkerWithEmptyVlanTag, FullTalker>>)>>),
     CncConfig(<<Stream("s1", <<>>)>>)}

\* The documents of the YAML sources: null, empty and plain ones, and the
\* token as a key, as a value, in a sequence under a key, in a top-level
\* sequence and as a top-level scalar.
YamlDocuments ==
    {PyNone,
     PyList(<<>>),
     PyDict(<< <<"interfaces", PyDict(<< <<"interface", PyList(<<>>)>> >>)>> >>),
     PyDict(<< <<"Chronos-Domain", PyInt(1)>> >>),
     PyDict(<< <<"domain", PyStr(<<"urn:", "CHRONOS-DOMAIN", ":1">>)>> >>),
     PyDict(<< <<"domains", PyList(<<PyStr(<<"a">>),
                                     PyStr(<<"chronos-domain">>)>>)>> >>),
     PyList(<<PyStr(<<"a">>), PyStr(<<"chronos-domain">>)>>),
     PyList(<<PyDict(<< <<"name", PyStr(<<"Chronos-Domain">>)>> >>)>>),
     PyStr(<<"chronos-domain">>),
     PyStr(<<"plain">>)}

ReadSources ==
    {XmlContent(TRUE, elements) : elements \in SeqsUpTo(RootElements, MaxUnits)}
    \cup {YamlContent(TRUE, docs) : docs \in SeqsUpTo(YamlDocuments, MaxUnits)}
    \cup {XmlMalformed, YamlMalformed, NoFile}

NoExtraction ==
    [interface_names |-> <<>>, gate_control_entries |-> <<>>,
     all_talker_stream_info |-> <<>>]

InitRead ==
    /\ pc = "source"
    /\ source \in ReadSources
    /\ documents = <<>>
    /\ parse_result = <<>>
    /\ chronos_found = <<>>
    /\ extraction = NoExtraction
    /\ IdleGcl
    /\ IdleProto
    /\ IdleTalker
    /\ IdleFilter
    /\ IdleReset
    /\ IdleParser
    /\ IdleApply
    /\ IdleWatch
    /\ IdleShow

\* XMLParser.parse or YAMLParser.parse, by the format of the source; a
\* missing file is given to the XML parser.
ParseSource ==
    /\ pc = "source"
    /\ \E r \in {IF source.format = "yaml" THEN YAMLParser_parse(source)
                 ELSE XMLParser_parse(source)} :
          /\ parse_result' = r
          /\ IF IsRaised(r)
             THEN pc' = "failed" /\ UNCHANGED documents
             ELSE pc' = "parsed" /\ documents' = r.returned
    /\ UNCHANGED <<source, chronos_found, extraction, gclVars, protoVars,
                   talkerVars, filterVars, resetVars, parserVars,
                   applyVars, watchVars, showVars>>

ScanForMarker ==
    /\ pc = "parsed"
    /\ chronos_found = <<>>
    /\ chronos_found' = <<has_chronos_domain(documents)>>
    /\ UNCHANGED <<pc, docVars, parse_result, extraction, gclVars, protoVars,
                   talkerVars, filterVars, resetVars, parserVars,
                   applyVars, watchVars, showVars>>

\* The frame of an extraction call.
Extracted(ex) ==
    /\ pc = "parsed"
    /\ extraction' = ex
    /\ UNCHANGED <<pc, docVars, parse_result, chronos_found, gclVars, protoVars,
                   talkerVars, filterVars, resetVars, parserVars,
                   applyVars, watchVars, showVars>>

ExtractInterfaceNames ==
    /\ extraction.interface_names = <<>>
    /\ Extracted([extraction EXCEPT !.interface_names =
                                       <<GE_get_interface_names(documents)>>])

ExtractGateControlEntries ==
    /\ extraction.gate_control_entries = <<>>
    /\ Extracted([extraction EXCEPT !.gate_control_entries =
                                       <<GE_get_gate_control_entries(documents)>>])

ExtractAllTalkerStreamInfo ==
    /\ extraction.all_talker_stream_info = <<>>
    /\ Extracted([extraction EXCEPT !.all_talker_stream_info =
                                       <<GE_get_all_talker_stream_info(documents)>>])

NextRead ==
    \/ ParseSource
    \/ ScanForMarker
    \/ ExtractInterfaceNames
    \/ ExtractGateControlEntries
    \/ ExtractAllTalkerStreamInfo

SpecRead ==
    InitRead /\ [][NextRead]_vars

---------------------------------------------------------------------------
(* Claims about the format parsers, the marker scan and the extraction on  *)
(* parsed documents.                                                       *)

RECURSIVE DropNulls(_)
\* The documents of a YAML stream without the null ones, in order.
DropNulls(docs) ==
    IF docs = <<>> THEN <<>>
    ELSE IF Head(docs) = PyNone THEN DropNulls(Tail(docs))
    ELSE <<Head(docs)>> \o DropNulls(Tail(docs))

\* The name of an element without its namespace.
LocalName(element) ==
    element.tag[Len(element.tag)]

C18_MarkerScan ==
    chronos_found # <<>> => (chronos_found[1] <=> MarkerOccurs(documents))

\* C19: on the documents of an XML source that parsed, whatever blocks are
\* absent or empty, get_interface_names, get_gate_control_entries and
\* get_all_talker_stream_info do not raise.
C19_ExtractionNeverRaises ==
    (pc = "parsed" /\ source.format = "xml") =>
        /\ extraction.interface_names # <<>> =>
              ~IsRaised(extraction.interface_names[1])
        /\ extraction.gate_control_entries # <<>> =>
              ~IsRaised(extraction.gate_control_entries[1])
        /\ extraction.all_talker_stream_info # <<>> =>
              ~IsRaised(extraction.all_talker_stream_info[1])

---------------------------------------------------------------------------
(* The VLAN attributes of the filter commands.                             *)

\* The id and the priority that the vlan push action of a filter command
\* carries.
VlanPushId(c) ==
    c[Len(c) - 9]

VlanPushPriority(c) ==
    c[Len(c) - 5]

\* C21: the non-time-aware generator raises KeyError for a talker that
\* lacks vlan_id or vlan_priority, so it returns no filter command whose
\* vlan push action carries a missing id or priority.
C21_MissingVlanRaises ==
    (pc = "generated" /\ filter_call.generator = "non_time_aware") =>
        \A i \in 1..Len(filter_cmds) :
            IsFilterCommand(filter_cmds[i]) =>
                /\ VlanPushId(filter_cmds[i]) # "None"
                /\ VlanPushPriority(filter_cmds[i]) # "None"

---------------------------------------------------------------------------
(* TIMEConfigHub.apply_config: a configuration file is parsed, its         *)
(* interfaces are validated and reset, and the qdisc and filter commands   *)
(* generated from it are run on the kernel.                                *)

MaxFailures == 1    \* tc commands of one phase that fail

\* num_tc=4 in the call of create_tc_qdisc_gcl_command.
CoreNumTc == 4

\* An entry of the log of an apply_config call: the phase, the command,
\* its return code (-1 when it raised) and what the kernel held for the
\* device when the command ran (for a reset, when the reset of the
\* interface began).
ApplyEntry(phase, command, returncode, before) ==
    [phase |-> phase, command |-> command, returncode |-> returncode,
     before |-> before]

\* A command fails on a device /sys/class/net does not hold.
CommandOutcome(command, present, fails) ==
    IF fails \/ command[5] \notin present THEN "fail" ELSE "ok"

RunEvenInDryRun(dry_run) ==
    FALSE

\* `if dry_run: continue`
SkipExecution(dry_run) ==
    dry_run

RECURSIVE RunTcCommandsLoop(_, _, _, _, _, _)
\* The loop of _run_tc_commands over the commands left; st holds the
\* kernel, the log and fail_count.
RunTcCommandsLoop(commands, phase, present, failing, position, st) ==
    IF commands = <<>> THEN st
    ELSE LET cmd == Head(commands)
             dev == cmd[5]
             r == run_tc_command(cmd, st.kernel[dev],
                      CommandOutcome(cmd, present, position \in failing))
             ran == [kernel |-> [st.kernel EXCEPT ![dev] = r.kernel],
                     log |-> Append(st.log,
                                 ApplyEntry(phase, cmd, r.result.returncode,
                                            st.kernel[dev])),
                     fail_count |->
                         st.fail_count
                         + (IF r.result.returncode # 0 THEN 1 ELSE 0)]
         IN  CHOOSE after \in
                 {RunTcCommandsLoop(Tail(commands), phase, present, failing,
                                    position + 1, next) : next \in {ran}} :
                 TRUE

\* TIMEConfigHub._run_tc_commands: in a dry run the commands are logged
\* only.  failing holds the positions, from first on, of the commands that
\* fail whatever the kernel holds.
_run_tc_commands(commands, dry_run, phase, present, failing, first, st) ==
    IF SkipExecution(dry_run) THEN [st EXCEPT !.fail_count = 0]
    ELSE CHOOSE after \in
             {RunTcCommandsLoop(commands, phase, present, failing, first,
                                start) :
                 start \in {[st EXCEPT !.fail_count = 0]}} : TRUE

\* show_qdisc_state and _show_filter_state: one query per interface.
ShowState(interfaces, phase, query, st) ==
    [st EXCEPT !.log =
        @ \o [i \in 1..Len(interfaces) |->
                 ApplyEntry(phase,
                            IF query = "filter"
                            THEN ShowFiltersCommand(interfaces[i])
                            ELSE ShowQdiscCommand(interfaces[i]),
                            0, st.kernel[interfaces[i]])]]

ValidateAlways(interface, present) ==
    TRUE

\* TIMEConfigHub._validate_interface: whether /sys/class/net holds the
\* interface.
_validate_interface(interface, present) ==
    interface \in present

\* The loop of apply_config over the interfaces: those _validate_interface
\* was called on, the first invalid one being the last.
RECURSIVE ValidatedInterfaces(_, _)
ValidatedInterfaces(interfaces, present) ==
    IF interfaces = <<>> THEN <<>>
    ELSE IF ~_validate_interface(Head(interfaces), present)
    THEN <<Head(interfaces)>>
    ELSE <<Head(interfaces)>> \o ValidatedInterfaces(Tail(interfaces), present)

\* The log of a reset_config call as entries of the log of apply_config.
ResetEntries(log, before) ==
    [i \in 1..Len(log) |->
        ApplyEntry("reset", log[i].command,
                   IF IsRaised(log[i].result) THEN -1
                   ELSE log[i].result.returncode,
                   before)]

RECURSIVE ResetInterfacesLoop(_, _, _)
\* TIMEConfigHub._reset_interfaces over the interfaces left: reset_config
\* on each, an exception ending the loop.  courses holds three courses per
\* interface.
ResetInterfacesLoop(interfaces, courses, st) ==
    IF interfaces = <<>> THEN [st |-> st, raised |-> FALSE]
    ELSE LET interface == Head(interfaces)
             before == st.kernel[interface]
             After(r) ==
                 [kernel |-> [st.kernel EXCEPT ![interface] = r.st.kernel],
                  log |-> st.log \o ResetEntries(r.st.log, before),
                  fail_count |-> 0]
         IN  CHOOSE out \in
                 {IF IsRaised(r.result)
                  THEN [st |-> After(r), raised |-> TRUE]
                  ELSE ResetInterfacesLoop(Tail(interfaces),
                           SubSeq(courses, 4, Len(courses)), After(r)) :
                     r \in {reset_config(interface,
                                [kernel |-> before, log |-> <<>>,
                                 courses |-> SubSeq(courses, 1, 3)])}} : TRUE

_reset_interfaces(interfaces, courses, st) ==
    ResetInterfacesLoop(interfaces, courses, st)

\* The arguments of create_tc_qdisc_gcl_command in
\* _apply_qdisc_configuration.
CoreQdiscArgs(interfaces, gcl) ==
    [interfaces |-> interfaces,
     gcl |-> gcl,
     num_tc |-> CoreNumTc,
     base_time |-> PyNone,
     map_str |-> CoreMapStr,
     queues_str |-> DefaultQueuesStr,
     handle_id |-> PyNone,
     flags |-> "0x1",
     txtime_delay |-> TxtimeDelayDefault,
     delta |-> DeltaDefault]

\* TIMEConfigHub._apply_qdisc_configuration: the commands are run, the
\* qdisc state is shown, and then a failed command raises.
_apply_qdisc_configuration(interfaces, gcl, dry_run, present, failing, now, st) ==
    CHOOSE out \in
        {[st |-> IF dry_run THEN ran
                 ELSE ShowState(interfaces, "qdisc", "qdisc", ran),
          raised |-> ran.fail_count > 0] :
            ran \in {_run_tc_commands(
                         create_tc_qdisc_gcl_command(
                             CoreQdiscArgs(interfaces, gcl), now),
                         dry_run, "qdisc", present, failing, 1, st)}} : TRUE

\* The _clsact_exists queries of the time-aware generator.
ClsactQueries(checks, st) ==
    [st EXCEPT !.log =
        @ \o [i \in 1..Len(checks) |->
                 ApplyEntry("filter", ShowQdiscCommand(checks[i]), 0,
                            st.kernel[checks[i]])]]

\* The second half of _apply_filter_configuration: the commands of both
\* generators are at hand; the time-aware ones are run, then the others,
\* the filter state is shown, and then a failed command raises.
RunFilterCommands(time_aware_vlan_commands, non_time_aware_vlan_commands, interfaces, dry_run, present, failing, st) ==
    CHOOSE out \in UNION
        {{[st |-> IF dry_run THEN second_run
                  ELSE ShowState(interfaces, "filter", "filter", second_run),
           raised |-> first_run.fail_count + second_run.fail_count > 0] :
             second_run \in
                 {_run_tc_commands(non_time_aware_vlan_commands, dry_run,
                      "filter", present, failing,
                      Len(time_aware_vlan_commands) + 1, first_run)}} :
          first_run \in
              {_run_tc_commands(time_aware_vlan_commands, dry_run, "filter",
                                present, failing, 1, st)}} : TRUE

\* TIMEConfigHub._apply_filter_configuration: both lists of commands are
\* generated before any of them is run.
_apply_filter_configuration(interfaces, docs, dry_run, present, failing, st) ==
    CHOOSE out \in UNION
        {IF IsRaised(info) THEN {[st |-> st, raised |-> TRUE]}
         ELSE {RunFilterCommands(
                   generated.commands,
                   create_tc_filter_commands_for_non_time_aware_talkers(
                       get_vlan_tagged_non_time_aware_talker_info(
                           info.returned)),
                   interfaces, dry_run, present, failing,
                   ClsactQueries(generated.checks, st)) :
                  generated \in
                      {create_tc_filter_commands_for_time_aware_talkers(
                           get_vlan_tagged_time_aware_talker_info(
                               info.returned))}} :
            info \in {GE_get_all_talker_stream_info(docs)}} : TRUE

---------------------------------------------------------------------------
(* SpecApply: one apply_config call on a configuration file, in the five   *)
(* phases of its code.                                                     *)

ApplyDevices == {"eth0", "eth1", "eth2"}

\* <interface><name>eth0</name><gate-parameter-table>...</interface>
ApplyInterface(name) ==
    Node("interface",
         <<Leaf("name", <<name>>),
           Node("gate-parameter-table",
                <<Node("admin-control-list", <<GateEntry("1", "500")>>)>>)>>)

ApplyInterfaces(names) ==
    Node("interfaces", [i \in 1..Len(names) |-> ApplyInterface(names[i])])

\* A talker with a VLAN tag on the interface named, time-aware or not.
ApplyTalker(name, time_aware) ==
    Node("talker",
         <<InterfaceList(name,
               <<Node("config-list",
                      <<Node("ieee802-vlan-tag",
                             <<Leaf("vlan-id", <<"100">>),
                               Leaf("priority-code-point", <<"3">>)>>)>>
                      \o (IF time_aware
                          THEN <<Leaf("time-aware-offset", <<"500">>)>>
                          ELSE <<>>))>>)>>)

ApplyNameLists ==
    {<<>>, <<"eth0">>, <<"eth0", "eth1">>}

\* The talkers of the stream of a file: on interfaces of the interfaces
\* section and on eth2, which no interfaces section names.
ApplyTalkerLists ==
    {<<>>,
     <<ApplyTalker("eth0", TRUE)>>,
     <<ApplyTalker("eth0", FALSE)>>,
     <<ApplyTalker("eth0", FALSE), ApplyTalker("eth0", TRUE)>>,
     <<ApplyTalker("eth0", TRUE), ApplyTalker("eth1", FALSE)>>,
     <<ApplyTalker("eth2", TRUE)>>,
     <<ApplyTalker("eth0", TRUE), ApplyTalker("eth2", FALSE)>>}

\* The files: with and without the marker element, and files that give no
\* documents.
ApplyFiles ==
    {XmlContent(TRUE, <<ApplyInterfaces(names),
                        CncConfig(<<Stream("s1", talkers)>>)>> \o marker) :
        names \in ApplyNameLists, talkers \in ApplyTalkerLists,
        marker \in {<<>>, <<MarkedElement>>}}
    \cup {XmlMalformed, NoFile, XmlContent(TRUE, <<>>)}

\* What /sys/class/net may hold.
ApplyPresent ==
    {{}, {"eth0"}, ApplyDevices}

KernelEmpty == [filters |-> FALSE, clsact |-> FALSE, root |-> FALSE]
KernelFull == [filters |-> TRUE, clsact |-> TRUE, root |-> TRUE]

\* What the kernel may hold when the call begins.
ApplyKernels ==
    {[d \in ApplyDevices |-> k] : k \in {KernelEmpty, KernelFull}}

\* What `tc qdisc show dev` lists a clsact for.
ClsactShown(k, present) ==
    {d \in present : k[d].clsact}

InitApply ==
    /\ pc = "apply"
    /\ apply_call \in [file : ApplyFiles, dry_run : BOOLEAN,
                       present : ApplyPresent]
    /\ apply_kernel \in ApplyKernels
    /\ clsact_shown = ClsactShown(apply_kernel, apply_call.present)
    /\ apply_data = <<>>
    /\ apply_validated = <<>>
    /\ apply_log = <<>>
    /\ apply_result = <<>>
    /\ filter_call = <<>>
    /\ filter_cmds = <<>>
    /\ clsact_checks = <<>>
    /\ IdleDocs
    /\ IdleGcl
    /\ IdleProto
    /\ IdleTalker
    /\ IdleReset
    /\ IdleParser
    /\ IdleRead
    /\ IdleWatch
    /\ IdleShow

\* The frame of the phases: what a phase leaves of the call.
ApplyFrame ==
    UNCHANGED <<apply_call, docVars, gclVars, protoVars, talkerVars,
                filter_call, filter_cmds, clsact_checks, resetVars,
                parserVars, readVars, watchVars, showVars>>

\* The call ends: it returns None or raises TSNConfigError.
ApplyEnds(result) ==
    /\ apply_result' = result
    /\ pc' = "applied"

\* The state a phase works on and leaves.
ApplyState ==
    [kernel |-> apply_kernel, log |-> apply_log, fail_count |-> 0]

ApplyLeaves(st) ==
    /\ apply_kernel' = st.kernel
    /\ apply_log' = st.log
    /\ clsact_shown' = ClsactShown(st.kernel, apply_call.present)

\* _parse_config, get_dictionary_helper and the extraction of interfaces
\* and gate entries.
ParseConfig ==
    /\ pc = "apply"
    /\ \E p \in {UniversalParser_parse(NewUniversalParser,
                                       PathAXml :> apply_call.file, PathAXml)} :
          IF IsRaised(p.result) \/ p.result.returned = <<>>
          THEN ApplyEnds(Raised("TSNConfigError")) /\ UNCHANGED apply_data
          ELSE IF get_dictionary_helper(p.up) = PyNone
          THEN ApplyEnds(Returned(PyNone)) /\ UNCHANGED apply_data
          ELSE LET docs == get_dictionary_helper(p.up).engine
                   names == GE_get_interface_names(docs)
                   raw == GE_get_gate_control_entries(docs)
               IN  IF IsRaised(names) \/ IsRaised(raw)
                   THEN /\ ApplyEnds(Raised("TSNConfigError"))
                        /\ UNCHANGED apply_data
                   ELSE /\ apply_data' =
                               [documents |-> docs,
                                interfaces |-> names.returned,
                                gcl |-> get_gate_control_entries_formatted(docs)]
                        /\ pc' = "extracted"
                        /\ UNCHANGED apply_result
    /\ UNCHANGED <<apply_validated, apply_kernel, apply_log, clsact_shown>>
    /\ ApplyFrame

\* The validation loop.
ValidateInterfaces ==
    /\ pc = "extracted"
    /\ apply_validated' =
           ValidatedInterfaces(apply_data.interfaces, apply_call.present)
    /\ IF \E i \in 1..Len(apply_data.interfaces) :
              ~_validate_interface(apply_data.interfaces[i], apply_call.present)
       THEN ApplyEnds(Raised("TSNConfigError"))
       ELSE pc' = "validated" /\ UNCHANGED apply_result
    /\ UNCHANGED <<apply_data, apply_kernel, apply_log, clsact_shown>>
    /\ ApplyFrame

\* The sets of at most MaxFailures positions among the first n.
FailingSets(n) ==
    {F \in SUBSET (1..n) : Cardinality(F) <= MaxFailures}

\* `if not dry_run: self._reset_interfaces(interfaces)`
ResetInterfaces ==
    /\ pc = "validated"
    /\ IF apply_call.dry_run
       THEN /\ pc' = "reset_done"
            /\ UNCHANGED <<apply_kernel, apply_log, clsact_shown, apply_result>>
       ELSE \E F \in FailingSets(3 * Len(apply_data.interfaces)),
               course \in {"query_fails", "delete_raises"} :
               LET courses == [i \in 1..(3 * Len(apply_data.interfaces)) |->
                                  IF i \in F THEN course ELSE "ok"]
                   r == _reset_interfaces(apply_data.interfaces, courses,
                                          ApplyState)
               IN  /\ ApplyLeaves(r.st)
                   /\ IF r.raised THEN ApplyEnds(Raised("TSNConfigError"))
                      ELSE pc' = "reset_done" /\ UNCHANGED apply_result
    /\ UNCHANGED <<apply_data, apply_validated>>
    /\ ApplyFrame

ApplyQdiscConfiguration ==
    /\ pc = "reset_done"
    /\ \E F \in FailingSets((CoreNumTc + 1) * Len(apply_data.interfaces)),
          now \in {1700000000} :
          LET r == _apply_qdisc_configuration(
                       apply_data.interfaces, apply_data.gcl,
                       apply_call.dry_run, apply_call.present, F, now,
                       ApplyState)
          IN  /\ ApplyLeaves(r.st)
              /\ IF r.raised THEN ApplyEnds(Raised("TSNConfigError"))
                 ELSE pc' = "qdisc_done" /\ UNCHANGED apply_result
    /\ UNCHANGED <<apply_data, apply_validated>>
    /\ ApplyFrame

ApplyFilterConfiguration ==
    /\ pc = "qdisc_done"
    /\ \E F \in FailingSets(3) :
          LET r == _apply_filter_configuration(
                       apply_data.interfaces, apply_data.documents,
                       apply_call.dry_run, apply_call.present, F, ApplyState)
          IN  /\ ApplyLeaves(r.st)
              /\ ApplyEnds(IF r.raised THEN Raised("TSNConfigError")
                           ELSE Returned(PyNone))
    /\ UNCHANGED <<apply_data, apply_validated>>
    /\ ApplyFrame

NextApply ==
    \/ ParseConfig
    \/ ValidateInterfaces
    \/ ResetInterfaces
    \/ ApplyQdiscConfiguration
    \/ ApplyFilterConfiguration

SpecApply ==
    InitApply /\ [][NextApply]_vars

---------------------------------------------------------------------------
(* Claims about apply_config.                                              *)

\* The documents the file of the call parses to, <<>> when it gives none.
ApplyDocuments ==
    IF IsRaised(XMLParser_parse(apply_call.file)) THEN <<>>
    ELSE XMLParser_parse(apply_call.file).returned

\* A command that changes what the kernel holds: every tc command but the
\* show queries.
ChangesState(command) ==
    command[3] # "show"

\* The entries of the log of a phase.
PhaseEntries(phase) ==
    LET InPhase(e) == e.phase = phase
    IN  SelectSeq(apply_log, InPhase)

\* C22: a file that parses to documents none of which holds the
\* chronos-domain marker makes apply_config return without raising and
\* without running a tc command: no reset, no qdisc and no filter command.
C22_NoMarkerNoCommands ==
    (ApplyDocuments # <<>> /\ ~MarkerOccurs(ApplyDocuments)) =>
        /\ pc \in {"apply", "applied"}
        /\ apply_log = <<>>
        /\ apply_validated = <<>>
        /\ pc = "applied" => apply_result = Returned(PyNone)

C22_Witness ==
    /\ pc = "applied"
    /\ ApplyDocuments # <<>>
    /\ ~MarkerOccurs(ApplyDocuments)
    /\ get_interface_names(ApplyDocuments) # <<>>
    /\ ~apply_call.dry_run
    /\ apply_result = Returned(PyNone)

\* C23: in a dry run apply_config runs no tc command that changes what an
\* interface holds: no delete of filters, clsact or root qdisc, no qdisc
\* replace, no qdisc add, no filter add; the kernel is as the call found it.
C23_DryRunChangesNothing ==
    apply_call.dry_run =>
        /\ \A i \in 1..Len(apply_log) : ~ChangesState(apply_log[i].command)
        /\ \A i \in 1..Len(apply_log) :
              apply_log[i].before = apply_kernel[Device(apply_log[i].command)]
        /\ \E k \in ApplyKernels : apply_kernel = k

\* A dry run that went through every phase, with qdisc and filter commands
\* generated and a clsact query made by the time-aware generator.
C23_Witness ==
    /\ apply_call.dry_run
    /\ pc = "applied"
    /\ apply_result = Returned(PyNone)
    /\ apply_data # <<>>
    /\ Len(apply_data.interfaces) = 2
    /\ apply_data.gcl # <<>>
    /\ apply_log # <<>>

\* The rank of the phases in the order of the code.
PhaseRank(phase) ==
    CASE phase = "reset" -> 1
      [] phase = "qdisc" -> 2
      [] phase = "filter" -> 3

\* The qdisc commands the call generates.
GeneratedQdiscCommands ==
    create_tc_qdisc_gcl_command(
        CoreQdiscArgs(apply_data.interfaces, apply_data.gcl), 1700000000)

\* The commands of the entries of a phase that are no show queries.
PhaseCommands(phase) ==
    LET InPhase(e) == e.phase = phase /\ ChangesState(e.command)
        ran == SelectSeq(apply_log, InPhase)
    IN  [i \in 1..Len(ran) |-> ran[i].command]

\* C24: apply_config runs its phases in order, each gated on the one
\* before: every interface is validated before any tc command runs and an
\* invalid interface raises TSNConfigError with no tc command run; every
\* interface is reset before the first qdisc command; the qdisc commands
\* run in generated order, all of them even when one fails; and a filter
\* command only runs when every qdisc command returned 0, a failed one
\* raising TSNConfigError after the qdisc phase.
C24_PhasesInOrder ==
    /\ apply_log # <<>> =>
          /\ apply_validated = apply_data.interfaces
          /\ \A i \in 1..Len(apply_data.interfaces) :
                apply_data.interfaces[i] \in apply_call.present
    /\ (/\ apply_data # <<>>
        /\ \E i \in 1..Len(apply_data.interfaces) :
              apply_data.interfaces[i] \notin apply_call.present) =>
          /\ apply_log = <<>>
          /\ pc \in {"extracted", "applied"}
          /\ pc = "applied" => apply_result = Raised("TSNConfigError")
    /\ \A i, j \in 1..Len(apply_log) :
          i < j => PhaseRank(apply_log[i].phase) <= PhaseRank(apply_log[j].phase)
    /\ (~apply_call.dry_run /\ PhaseEntries("qdisc") # <<>>) =>
          /\ \A i \in 1..Len(apply_data.interfaces) :
                Cardinality({j \in 1..Len(apply_log) :
                    /\ apply_log[j].phase = "reset"
                    /\ apply_log[j].command[3] = "show"
                    /\ Device(apply_log[j].command) = apply_data.interfaces[i]})
                  = 3
          /\ PhaseCommands("qdisc") = GeneratedQdiscCommands
    /\ PhaseEntries("filter") # <<>> =>
          \A i \in 1..Len(apply_log) :
              apply_log[i].phase = "qdisc" => apply_log[i].returncode = 0
    /\ (\E i \in 1..Len(apply_log) :
           apply_log[i].phase = "qdisc" /\ apply_log[i].returncode # 0) =>
          /\ pc = "applied"
          /\ apply_result = Raised("TSNConfigError")

\* A call on two valid interfaces whose first qdisc command failed: every
\* qdisc command was run and the call raised; and a call that named an
\* interface /sys/class/net does not hold.
C24_Witness ==
    /\ ~apply_call.dry_run
    /\ pc = "applied"
    /\ apply_data # <<>>
    /\ Len(apply_data.interfaces) = 2
    /\ Len(PhaseCommands("qdisc")) = 2 * (CoreNumTc + 1)
    /\ PhaseEntries("qdisc")[1].returncode # 0
    /\ PhaseEntries("reset") # <<>>
    /\ apply_result = Raised("TSNConfigError")

\* C25: in a call that is no dry run and in which no command failed so far,
\* a clsact qdisc is on the interface when a `tc filter add dev <iface>
\* egress` command is run, for the talkers of either class.  The
\* interfaces looked at are those of the interfaces section, which the
\* call has reset.
C25_ClsactBeforeFilter ==
    ~apply_call.dry_run =>
        \A i \in 1..Len(apply_log) :
            (/\ IsFilterCommand(apply_log[i].command)
             /\ \E n \in 1..Len(apply_data.interfaces) :
                   apply_data.interfaces[n] = Device(apply_log[i].command)
             /\ \A j \in 1..(i - 1) : apply_log[j].returncode = 0) =>
                apply_log[i].before.clsact

\* C26: every interface a clsact or filter command was run on is one of
\* the interfaces extracted from the interfaces section.
C26_CommandsOnListedInterfaces ==
    \A i \in 1..Len(apply_log) :
        (\/ IsFilterCommand(apply_log[i].command)
         \/ IsClsactCommand(apply_log[i].command)) =>
            \E n \in 1..Len(apply_data.interfaces) :
                apply_data.interfaces[n] = Device(apply_log[i].command)

---------------------------------------------------------------------------
(* watch_handler.py.  time.time() is the variable clock, counted in ticks  *)
(* of a quarter of a second; it starts late enough after the epoch for a   *)
(* first event never to be taken for a repetition.  A file on disk is the  *)
(* number of its edition, 0 when it is absent; an event is delivered as    *)
(* the write it reports is made.                                           *)

\* A pool of two threads.
MoreWorkers == 1 + 1

TOTAL_WORKER == 1
DEBOUNCE_INTERVAL == 2
SUPPORTED_EXT == {".yaml", ".yml", ".xml"}

MaxEvents == 3      \* file system events delivered to the handler
MaxTicks == 2       \* ticks of the clock after the start

PathTilde == <<"a", ".", "x", "m", "l", "~">>
PathConfDir == <<"c", "o", "n", "f", ".", "x", "m", "l">>
PathTrailingDot == <<"f", ".", "x", "m", "l", ".">>

\* Path(file_path).name: what follows the last separator.
PathName(p) ==
    LET seps == {i \in 1..Len(p) : p[i] = "/"}
        sepIndex == IF seps = {} THEN 0
                    ELSE CHOOSE i \in seps : \A j \in seps : j <= i
    IN  SubSeq(p, sepIndex + 1, Len(p))

\* Path(file_path).suffix: the name from its last dot on, unless that dot
\* opens or closes the name.
PathSuffix(p) ==
    LET name == PathName(p)
        dots == {i \in 1..Len(name) : name[i] = "."}
        dotIndex == IF dots = {} THEN 0
                    ELSE CHOOSE i \in dots : \A j \in dots : j <= i
    IN  IF 1 < dotIndex /\ dotIndex < Len(name)
        THEN SubSeq(name, dotIndex, Len(name))
        ELSE <<>>

\* WatchHandler._is_valid_config_file.
_is_valid_config_file(file_path) ==
    LET filename == PathName(file_path)
    IN  IF filename # <<>> /\ filename[1] = "." THEN FALSE
        ELSE IF filename # <<>> /\ filename[Len(filename)] = "~" THEN FALSE
        ELSE Flat(Lower(PathSuffix(file_path))) \in SUPPORTED_EXT

\* A file system event of watchdog.
WatchEvent(src_path, is_directory) ==
    [src_path |-> src_path, is_directory |-> is_directory]

\* The files and the directory the events are about.
WatchPaths ==
    {PathAXml, PathCYaml, PathHidden, PathTilde, PathJson, PathTrailingDot,
     PathConfDir}

\* The events the handler is given, by their kind: on valid configuration
\* files, a hidden file, a backup file, unsupported extensions and a
\* directory.
CreatedEvents ==
    {WatchEvent(PathAXml, FALSE), WatchEvent(PathHidden, FALSE),
     WatchEvent(PathConfDir, TRUE)}

ModifiedEvents ==
    {WatchEvent(PathAXml, FALSE), WatchEvent(PathCYaml, FALSE),
     WatchEvent(PathTilde, FALSE), WatchEvent(PathJson, FALSE)}

DeletedEvents ==
    {WatchEvent(PathAXml, FALSE), WatchEvent(PathTrailingDot, FALSE)}

\* The events on the valid configuration files alone.
BurstCreated ==
    {WatchEvent(PathAXml, FALSE)}

BurstModified ==
    {WatchEvent(PathAXml, FALSE), WatchEvent(PathCYaml, FALSE)}

BurstDeleted ==
    {WatchEvent(PathAXml, FALSE)}

NoTask == [id |-> 0]

\* `now - last_time >= self.debounce_interval`, taken for `<`.
DebouncedLate(now, last_time) ==
    now - last_time <= DEBOUNCE_INTERVAL

\* `now - last_time < self.debounce_interval`.
Debounced(now, last_time) ==
    now - last_time < DEBOUNCE_INTERVAL

WatchFrame ==
    UNCHANGED <<pc, docVars, gclVars, protoVars, talkerVars, filterVars,
                resetVars, parserVars, readVars, applyVars, showVars>>

\* The event as the file system made it: the edition it leaves on disk and
\* the record of its delivery.
Delivered(event, event_type, submitted) ==
    /\ event_log' = Append(event_log,
          [event_type |-> event_type, src_path |-> event.src_path,
           is_directory |-> event.is_directory, time |-> clock,
           submitted |-> submitted])
    /\ watch_files' =
          IF event.is_directory THEN watch_files
          ELSE [watch_files EXCEPT ![event.src_path] =
                   IF event_type = "deleted" THEN 0 ELSE Len(event_log) + 1]

\* executor.submit(TIMEConfigHub(app_config).file_event_handler,
\* event_type, file_path): the work item joins the queue of the pool.
executor_submit(event_type, file_path) ==
    LET WasSubmitted(e) == e.submitted
    IN  Append(executor_queue,
               [id |-> Len(SelectSeq(event_log, WasSubmitted)) + 1,
                event_type |-> event_type, file_path |-> file_path,
                at |-> "queued"])

\* WatchHandler._handle_event.
_handle_event(event, event_type) ==
    LET file_path == event.src_path
        now == clock
        last_time == IF file_path \in DOMAIN _last_event_time
                     THEN _last_event_time[file_path] ELSE 0
    IN  IF event.is_directory \/ ~_is_valid_config_file(file_path)
        THEN /\ Delivered(event, event_type, FALSE)
             /\ UNCHANGED <<_last_event_time, executor_queue>>
        ELSE IF Debounced(now, last_time)
        THEN /\ Delivered(event, event_type, FALSE)
             /\ UNCHANGED <<_last_event_time, executor_queue>>
        ELSE /\ _last_event_time' = (file_path :> now) @@ _last_event_time
             /\ executor_queue' = executor_submit(event_type, file_path)
             /\ Delivered(event, event_type, TRUE)

\* WatchHandler.on_created.
on_created(events) ==
    /\ Len(event_log) < MaxEvents
    /\ \E event \in events : _handle_event(event, "created")
    /\ UNCHANGED <<clock, workers, applied, tc_trace>>
    /\ WatchFrame

\* WatchHandler.on_modified.
on_modified(events) ==
    /\ Len(event_log) < MaxEvents
    /\ \E event \in events : _handle_event(event, "modified")
    /\ UNCHANGED <<clock, workers, applied, tc_trace>>
    /\ WatchFrame

\* WatchHandler.on_deleted.
on_deleted(events) ==
    /\ Len(event_log) < MaxEvents
    /\ \E event \in events :
          LET file_path == event.src_path
          IN  IF ~event.is_directory /\ _is_valid_config_file(file_path)
              THEN /\ executor_queue' = executor_submit("deleted", file_path)
                   /\ Delivered(event, "deleted", TRUE)
              ELSE /\ Delivered(event, "deleted", FALSE)
                   /\ UNCHANGED executor_queue
    /\ UNCHANGED <<clock, _last_event_time, workers, applied, tc_trace>>
    /\ WatchFrame

\* time.time() moves on.
Tick ==
    /\ clock < DEBOUNCE_INTERVAL + MaxTicks
    /\ clock' = clock + 1
    /\ UNCHANGED <<_last_event_time, executor_queue, workers, watch_files,
                   event_log, applied, tc_trace>>
    /\ WatchFrame

\* A thread of the ThreadPoolExecutor takes the oldest work item.
WorkerTakes(w) ==
    /\ workers[w] = NoTask
    /\ executor_queue # <<>>
    /\ workers' = [workers EXCEPT
                      ![w] = [Head(executor_queue) EXCEPT !.at = "called"]]
    /\ executor_queue' = Tail(executor_queue)
    /\ UNCHANGED <<clock, _last_event_time, watch_files, event_log, applied,
                   tc_trace>>
    /\ WatchFrame

\* TIMEConfigHub.file_event_handler up to the parse of apply_config: a
\* deleted event is logged; a file that is gone raises TSNConfigError,
\* which the handler logs.
file_event_handler(w) ==
    /\ workers[w] # NoTask
    /\ workers[w].at = "called"
    /\ LET task == workers[w]
           edition == watch_files[task.file_path]
       IN  IF task.event_type = "deleted" \/ edition = 0
           THEN /\ workers' = [workers EXCEPT ![w] = NoTask]
                /\ UNCHANGED applied
           ELSE /\ workers' = [workers EXCEPT ![w].at = "reset"]
                /\ applied' = [applied EXCEPT ![task.file_path] = edition]
    /\ UNCHANGED <<clock, _last_event_time, executor_queue, watch_files,
                   event_log, tc_trace>>
    /\ WatchFrame

\* The phase after a phase of apply_config.
PhaseAfter(phase) ==
    CASE phase = "reset" -> "qdisc"
      [] phase = "qdisc" -> "filter"
      [] phase = "filter" -> "done"

\* apply_config(file_path, dry_run=False) of a task: the tc commands of its
\* next phase.
apply_config_phase(w) ==
    /\ workers[w] # NoTask
    /\ workers[w].at \in {"reset", "qdisc", "filter"}
    /\ tc_trace' = Append(tc_trace,
          [task |-> workers[w].id, file_path |-> workers[w].file_path,
           phase |-> workers[w].at])
    /\ workers' = [workers EXCEPT
                      ![w] = IF PhaseAfter(workers[w].at) = "done" THEN NoTask
                             ELSE [workers[w] EXCEPT
                                      !.at = PhaseAfter(workers[w].at)]]
    /\ UNCHANGED <<clock, _last_event_time, executor_queue, watch_files,
                   event_log, applied>>
    /\ WatchFrame

InitWatch ==
    /\ pc = "watching"
    /\ clock = DEBOUNCE_INTERVAL
    /\ _last_event_time = <<>>
    /\ executor_queue = <<>>
    /\ workers = [w \in 1..TOTAL_WORKER |-> NoTask]
    /\ watch_files = [p \in WatchPaths |-> 0]
    /\ event_log = <<>>
    /\ applied = [p \in WatchPaths |-> 0]
    /\ tc_trace = <<>>
    /\ IdleDocs
    /\ IdleGcl
    /\ IdleProto
    /\ IdleTalker
    /\ IdleFilter
    /\ IdleReset
    /\ IdleParser
    /\ IdleRead
    /\ IdleApply
    /\ IdleShow

\* The thread of the observer: the handler alone.
NextWatch ==
    \/ Tick
    \/ on_created(CreatedEvents)
    \/ on_modified(ModifiedEvents)
    \/ on_deleted(DeletedEvents)

SpecWatch ==
    InitWatch /\ [][NextWatch]_vars

\* The handler and the pool, on the valid configuration files.
NextExecutor ==
    \/ Tick
    \/ on_created(BurstCreated)
    \/ on_modified(BurstModified)
    \/ on_deleted(BurstDeleted)
    \/ \E w \in 1..TOTAL_WORKER : WorkerTakes(w)
    \/ \E w \in 1..TOTAL_WORKER : file_event_handler(w)
    \/ \E w \in 1..TOTAL_WORKER : apply_config_phase(w)

SpecExecutor ==
    InitWatch /\ [][NextExecutor]_vars

\* A thread of the pool that has work goes on with it.
SpecExecutorFair ==
    /\ InitWatch
    /\ [][NextExecutor]_vars
    /\ \A w \in 1..TOTAL_WORKER :
          /\ WF_vars(WorkerTakes(w))
          /\ WF_vars(file_event_handler(w))
          /\ WF_vars(apply_config_phase(w))

---------------------------------------------------------------------------
(* Claims about the watcher.                                               *)

\* The valid configuration files among the paths of the events.
ConfigurationFiles == {PathAXml, PathCYaml}

\* The i-th event is a created or modified event for a valid
\* configuration file.
Debounceable(i) ==
    /\ event_log[i].event_type \in {"created", "modified"}
    /\ ~event_log[i].is_directory
    /\ event_log[i].src_path \in ConfigurationFiles

\* The submitted created and modified events for the path of the i-th
\* event that came before it.
SubmittedBefore(i) ==
    {j \in 1..(i - 1) :
        /\ Debounceable(j)
        /\ event_log[j].src_path = event_log[i].src_path
        /\ event_log[j].submitted}

\* The time of the last of them.
LastSubmittedTime(i) ==
    event_log[CHOOSE j \in SubmittedBefore(i) :
                 \A k \in SubmittedBefore(i) : k <= j].time

\* An event for a valid configuration file is submitted if and only if the
\* interval has gone by since the last submitted event for its path; the
\* other created and modified events are never submitted.
DebounceRule ==
    \A i \in 1..Len(event_log) :
        /\ (event_log[i].event_type \in {"created", "modified"}
            /\ ~Debounceable(i)) => ~event_log[i].submitted
        /\ Debounceable(i) =>
              (event_log[i].submitted <=>
                  \/ SubmittedBefore(i) = {}
                  \/ event_log[i].time - LastSubmittedTime(i)
                        >= DEBOUNCE_INTERVAL)

C28_OneTaskAtATime ==
    /\ Cardinality({w \in DOMAIN workers : workers[w] # NoTask}) <= 1
    /\ \A i, j \in 1..Len(tc_trace) :
          i < j =>
              /\ tc_trace[i].task <= tc_trace[j].task
              /\ tc_trace[i].task = tc_trace[j].task =>
                    PhaseRank(tc_trace[i].phase) < PhaseRank(tc_trace[j].phase)
    /\ \A w \in DOMAIN workers :
          workers[w] # NoTask =>
              /\ \A i \in 1..Len(tc_trace) : tc_trace[i].task <= workers[w].id
              /\ \A i \in 1..Len(executor_queue) :
                    workers[w].id < executor_queue[i].id
    /\ \A i, j \in 1..Len(executor_queue) :
          i < j => executor_queue[i].id < executor_queue[j].id

\* The commands of a first task on one file have run, a second task on
\* another file is between its phases and a third task waits.
C28_Witness ==
    /\ Len(tc_trace) >= 4
    /\ tc_trace[1].file_path # tc_trace[4].file_path
    /\ tc_trace[1].task # tc_trace[4].task
    /\ \E w \in DOMAIN workers :
          /\ workers[w] # NoTask
          /\ workers[w].at = "qdisc"
    /\ executor_queue # <<>>

\* C29: once the events stop, the edition of every valid configuration
\* file on disk is the one the last apply_config run for it read.
C29_FinalContentApplied ==
    <>[](\A p \in ConfigurationFiles :
            watch_files[p] > 0 => applied[p] = watch_files[p])

---------------------------------------------------------------------------
(* cli.py, config-show.  What is printed is a sequence of lines, each on   *)
(* stdout or stderr; json.dumps and yaml.dump are the text of the          *)
(* configuration under the name of the function.                           *)

PyBool(b) == [t |-> "bool", b |-> b]

\* f"{value}" of a setting.
ShowStr(value) ==
    IF value.t = "bool" THEN (IF value.b THEN <<"True">> ELSE <<"False">>)
    ELSE Str(value)

RECURSIVE ShowRepr(_)
\* The text of a configuration section, setting by setting.
ShowRepr(kv) ==
    IF kv = <<>> THEN <<>>
    ELSE <<Head(kv)[1], ": ">> \o ShowStr(Head(kv)[2]) \o <<"; ">>
         \o ShowRepr(Tail(kv))

\* click.echo(message) and click.echo(message, err=True).
Echo(text) == [stream |-> "stdout", text |-> text]

EchoErr(text) == [stream |-> "stderr", text |-> text]

\* The messages of the finally clause, after their check mark and cross.
ShowSuccess == <<"Configuration displayed successfully">>

ShowError == <<"Error reading configuration">>

\* "=" * 40.
ShowRule == <<"========================================">>

\* The configurations load_app_config returns: the defaults, updated with
\* the sections of the configuration file.
ShowConfigs ==
    {PyDict(<<
        <<"Logging", PyDict(<<<<"LogLevel", PyStr(<<level>>)>>,
                              <<"LogDirectory", PyStr(<<"/var/log/tch">>)>>,
                              <<"LogFile", PyStr(<<"tch.log">>)>>>>)>>,
        <<"General", PyDict(<<<<"Verbosity", PyBool(verbosity)>>,
                              <<"ConfigDirectory", PyStr(<<directory>>)>>,
                              <<"ListeningFolder", PyList(folders)>>>>)>>>>) :
        level \in {"INFO", "DEBUG", "ERROR"},
        verbosity \in BOOLEAN,
        directory \in {"/etc/tch/tsn_configs", "/opt/tsn"},
        folders \in {<<>>, <<PyStr(<<"/etc/tch/tsn_configs">>)>>,
                     <<PyStr(<<"/opt/tsn">>), PyStr(<<"/srv/tsn">>)>>}}

ShowFormats == {"table", "json", "yaml"}

\* The lines of the table format.
ShowTable(general_config) ==
    <<Echo(<<"TSN CLI Configuration">>), Echo(ShowRule),
      Echo(<<"General Settings:">>)>>
    \o [i \in 1..Len(general_config.kv) |->
           Echo(<<"  ", general_config.kv[i][1], ": ">>
                \o ShowStr(general_config.kv[i][2]))]
    \o <<Echo(ShowRule)>>

\* config_show: the output of the format, and the report of the finally
\* clause on `result`, which the table branch alone sets.
config_show ==
    /\ pc = "show"
    /\ LET format == show_call.format
           app_config == show_call.app_config
           general_config == DictGet(app_config, "General", PyNone)
           dumped == ShowRepr(DictGet(app_config, "Logging", PyNone).kv)
                     \o ShowRepr(general_config.kv)
           printed ==
               IF format = "json"
               THEN <<Echo(<<"json.dumps: ">> \o dumped)>>
               ELSE IF format = "yaml"
               THEN <<Echo(<<"yaml.dump: ">> \o dumped)>>
               ELSE ShowTable(general_config)
           result == format \notin {"json", "yaml"}
       IN  /\ show_out' = printed \o (IF result THEN <<Echo(ShowSuccess)>>
                                      ELSE <<EchoErr(ShowError)>>)
           /\ show_exit' = IF result THEN 0 ELSE 1
    /\ pc' = "shown"
    /\ UNCHANGED <<show_call, docVars, gclVars, protoVars, talkerVars,
                   filterVars, resetVars, parserVars, readVars, applyVars,
                   watchVars>>

InitShow ==
    /\ pc = "show"
    /\ show_call \in [format : ShowFormats, app_config : ShowConfigs]
    /\ show_out = <<>>
    /\ show_exit = <<>>
    /\ IdleDocs
    /\ IdleGcl
    /\ IdleProto
    /\ IdleTalker
    /\ IdleFilter
    /\ IdleReset
    /\ IdleParser
    /\ IdleRead
    /\ IdleApply
    /\ IdleWatch

NextShow ==
    config_show

SpecShow ==
    InitShow /\ [][NextShow]_vars

\* C30: config-show, having printed the configuration in any of its three
\* formats, prints the success message and does not exit with status 1.
C30_ShowReportsSuccess ==
    pc = "shown" =>
        /\ \E i \in 1..Len(show_out) : show_out[i] = Echo(ShowSuccess)
        /\ show_exit # 1

====
